---- MODULE Spec2Model ----
(***************************************************************************)
(* Ledger core of the DigiCap economy bot (bot.py): wallets, the           *)
(* transactions ledger, loan applications and loans, user employment and   *)
(* the HTTP API.                                                           *)
(*                                                                         *)
(* Money is counted in hundredths (the smallest amount validate_amount     *)
(* accepts is 0.01); floating-point rounding is not modelled.              *)
(*                                                                         *)
(* Scheduling.  Chat commands run on one asyncio event loop and contain no *)
(* await between their first read and their commit, so two chat commands   *)
(* never interleave.  The Flask API runs in its own thread                 *)
(* (run_flask_app), so an HTTP handler can run between any two database    *)
(* statements of a chat command.  A write transaction of SQLite is         *)
(* invisible to other connections until it commits and excludes other      *)
(* writers, so each transaction is one step.  A chat command that reads    *)
(* the wallet through get_user_account before it opens its transaction is  *)
(* two steps: the read (...Read) and the transaction (...Write).           *)
(***************************************************************************)
EXTENDS Integers, Sequences, FiniteSets, TLC

\* ---------------------------------------------------------------- bounds
MaxTx == 4            \* rows of the transactions table
MaxApps == 2          \* rows of the loan_applications table
MaxDay == 1           \* days the clock advances
MaxJobs == 1          \* rows of the job_postings table
MaxSweepDay == 16     \* the last day the monitor's clock reaches

\* ------------------------------------------------------ program constants
StartGold == 10000            \* 100.0 gold dinars
StartSilver == 50000          \* 500.0 silver dirhams
MinAmount == 1                \* 0.01
MaxAmount == 99999999         \* 999999.99
MaxTermDays == 365
MaxPendingApps == 3
StartupCost == 5000000        \* 50000.0 gold dinars
UsherBonusPct == 15           \* get_agricultural_usher_bonus: 0.15
GoldTaxThreshold == 10000     \* 100.0
SilverTaxThreshold == 15000   \* 150.0
TaxRatePct == 5               \* 0.05
ResetDays == 14               \* cutoff of check_overdue_loans, reset branch
WarningDays == 7              \* warning branch of process_overdue_loans
PeriodSleepHours == 24        \* asyncio.sleep(86400)
BackoffHours == 1             \* asyncio.sleep(3600)
PeriodHours == 4              \* a profit period: hours_passed // 4
PeriodsPerDay == 6            \* period_profit = daily_profit / 6
MinCollect == 5               \* 0.05, the least profit collected
MaxAccounts == 5              \* accounts per user and institution
GoldNisab == 8500             \* 85.0
SilverNisab == 59500          \* 595.0
ZakatRatePerMille == 25       \* 0.025
ExchangeRate == 12            \* 1 gold = 12 silver

\* ----------------------------------------------------------------- inputs
UserId == {"u1", "u2"}        \* well-formed Discord ids (17-19 digits)
BadId == "bad"                \* an id validate_user_id rejects
Currency == {"gold_dinars", "silver_dirhams"}
\* what a chat user may type for a currency: the two names, a spelling that
\* differs in case only, and a name that is no currency
CurrencyInput == {"gold_dinars", "silver_dirhams", "Gold_Dinars", "copper"}
PayAmounts == {6000, 10000}
LoanAmounts == {4000, 12000}
RepayAmounts == {0, 1000, 4000, 5000}
RaceLoanAmounts == {4000}
RaceRepayAmounts == {1000, 4000}
TermDays == {30}
SweepTermDays == {1}
AccountId == {1, 2}
InstitutionId == {1, 2}
AccountType == {"wadiah", "mudarabah", "savings"}
\* profit_share_ratio in hundredths; is_none marks Python's None
RatioInput ==
    {[is_none |-> TRUE, value |-> 0], [is_none |-> FALSE, value |-> 50],
     [is_none |-> FALSE, value |-> 150]}
BankAmounts == {0, 5000}
Tokens == {"API_TOKEN", "wrong"}
ProfitDays == {8}
ProfitOwner == {"u1"}
ProfitGiveAmounts == {5000000}
ProfitBusinessType == {"islamic_finance"}
TradeAmounts == {0, 6000, 60000}
TradeCurrency == {"gold", "silver", "copper"}
SetGold == {10000, 0}
SetSilver == {50000}
ExchangeAmounts == {0, 1200}
ExchangeCurrency == {"gold", "silver"}
DaysPassing == {7, 8}
GiveAmounts == {0, 5000000}
GiveCurrency == {"gold", "copper"}
BusinessName == {"b1"}
BusinessType == {"islamic_finance", "agriculture", "casino"}
Salaries == {0, 60000}

VARIABLES
    users,              \* users table: user_id -> wallet row
    transactions,       \* transactions table, in insertion order
    loan_applications,  \* loan_applications table, id = position
    loans,              \* loans table, id = position
    businesses,         \* businesses table, id = position
    job_postings,       \* job_postings table, id = position
    user_employment,    \* user_employment table, id = position
    chat,               \* the chat command in progress (its local variables)
    reply,              \* what the last finished handler answered
    today,              \* the clock, in days
    bank_accounts,      \* bank_accounts table, id = position
    bank_ledger,        \* bank_ledger table, in insertion order
    bank_account_permissions,  \* bank_account_permissions table
    sweep,              \* the overdue-loan sweep in progress (its locals)
    notice,             \* the direct messages the monitor has sent
    api,                \* the /api/collect_profit request of each Flask thread
    checker             \* overdue_loan_checker: its position and its clock

loanTables == <<loan_applications, loans>>
jobTables == <<businesses, job_postings, user_employment>>
bankTables == <<bank_accounts, bank_ledger, bank_account_permissions>>
monitor == <<sweep, notice>>

vars == <<users, transactions, loan_applications, loans, businesses,
          job_postings, user_employment, chat, reply, today,
          bank_accounts, bank_ledger, bank_account_permissions, sweep,
          notice, api, checker>>

\* ---------------------------------------------------------------- helpers
NoUser == "none"

Idle == [pc |-> "idle", user |-> NoUser, id |-> 0, amount |-> 0,
         row |-> <<>>, user_data |-> <<>>]

\* No date: a NULL last_collection_date.
NoDate == 0 - 1

\* The request threads of the Flask server (app.run serves each request on
\* a thread of its own).
ApiThread == {1, 2}

ApiIdle == [pc |-> "idle", user |-> NoUser, total_profit |-> 0,
            businesses_to_update |-> {}]

\* The monitor between sweeps.
SweepIdle == [pc |-> "sleeping", overdue_loans |-> <<>>, processed_users |-> {}]

Reply(op, user, partner, amount, currency, id, result) ==
    [op |-> op, user |-> user, partner |-> partner, amount |-> amount,
     currency |-> currency, id |-> id, result |-> result]

verify_api_token_any(token) == TRUE

verify_api_token(token) == token = "API_TOKEN"

validate_user_id(user_id) == user_id \in UserId

validate_amount(amount) == MinAmount <= amount /\ amount <= MaxAmount

\* A ledger row without its partner_id
TxRowNoPartner(user_id, transaction_type, amount, currency, partner_id) ==
    [user_id |-> user_id, transaction_type |-> transaction_type,
     amount |-> amount, currency |-> currency, partner_id |-> NoUser]

TxRow(user_id, transaction_type, amount, currency, partner_id) ==
    [user_id |-> user_id, transaction_type |-> transaction_type,
     amount |-> amount, currency |-> currency, partner_id |-> partner_id]

\* str.lower() on the inputs above
Lower(s) == IF s = "Gold_Dinars" THEN "gold_dinars" ELSE s

\* The wallet column an f-string  UPDATE users SET {currency} = ...  names:
\* SQLite matches column names without regard to case.
Column(currency) == Lower(currency)

\* The wallet column picked by  ... if currency == 'gold_dinars' else ...
Branch(currency) ==
    IF currency = "gold_dinars" THEN "gold_dinars" ELSE "silver_dirhams"

NewUserRow == [gold_dinars |-> StartGold, silver_dirhams |-> StartSilver]

\* get_user_account: the users table after the call (the row is inserted
\* and committed when it is missing) ...
UsersAfterGetOverwrite(user_id) ==
    IF ~validate_user_id(user_id) THEN users
    ELSE (user_id :> NewUserRow) @@ users

UsersAfterGet(user_id) ==
    IF ~validate_user_id(user_id) THEN users
    ELSE IF user_id \in DOMAIN users THEN users
    ELSE users @@ (user_id :> NewUserRow)

\* ... and the row it returns (a zero row for an invalid id).
get_user_account(user_id) ==
    IF ~validate_user_id(user_id)
    THEN [gold_dinars |-> 0, silver_dirhams |-> 0]
    ELSE UsersAfterGet(user_id)[user_id]

\* UPDATE users SET <currency> = value WHERE user_id = ?  (no row: no effect)
SetBalance(tbl, user_id, currency, value) ==
    IF user_id \in DOMAIN tbl
    THEN [tbl EXCEPT ![user_id][currency] = value]
    ELSE tbl

\* UPDATE users SET <currency> = <currency> + delta WHERE user_id = ?
AddBalance(tbl, user_id, currency, delta) ==
    IF user_id \in DOMAIN tbl
    THEN [tbl EXCEPT ![user_id][currency] = @ + delta]
    ELSE tbl

Init ==
    /\ users = <<>>
    /\ transactions = <<>>
    /\ loan_applications = <<>>
    /\ loans = <<>>
    /\ businesses = <<>>
    /\ job_postings = <<>>
    /\ user_employment = <<>>
    /\ chat = Idle
    /\ reply = Reply("none", NoUser, NoUser, 0, "none", 0, "none")
    /\ today = 0
    /\ bank_accounts = <<>>
    /\ bank_ledger = <<>>
    /\ bank_account_permissions = {}
    /\ sweep = SweepIdle
    /\ notice = {}
    /\ api = [t \in ApiThread |-> ApiIdle]
    /\ checker = [pc |-> "sleep", slept |-> 0, failed |-> FALSE]

\* ------------------------------------------------------------- /bank (chat)
\* The account view: creates the account lazily and changes nothing else.
Bank(u) ==
    /\ chat.pc = "idle"
    /\ users' = UsersAfterGet(u)
    /\ reply' = Reply("bank", u, NoUser, 0, "none", 0, "ok")
    /\ UNCHANGED <<transactions, loanTables, jobTables, chat, today,
                   bankTables, monitor, api, checker>>

\* ------------------------------------------------------- POST /api/pay
\* rowcount of the conditional debit
\*   UPDATE users SET c = c - ? WHERE user_id = ? AND c >= ?
DebitRowcountNoCheck(from_user, currency, amount) ==
    IF from_user \in DOMAIN users THEN 1 ELSE 0

DebitRowcount(from_user, currency, amount) ==
    IF from_user \in DOMAIN users /\ users[from_user][currency] >= amount
    THEN 1 ELSE 0

\* rowcount of  UPDATE users SET c = c + ? WHERE user_id = ?
CreditRowcount(to_user) == IF to_user \in DOMAIN users THEN 1 ELSE 0

PayRequest ==
    [token : {"API_TOKEN"}, from_user : UserId, to_user : UserId,
     amount : PayAmounts, currency : Currency]
    \cup [token : {"wrong"}, from_user : {"u1"}, to_user : {"u2"},
          amount : {6000}, currency : {"gold_dinars"}]
    \cup [token : {"API_TOKEN"}, from_user : {BadId, "u1"}, to_user : {BadId},
          amount : {6000}, currency : {"gold_dinars"}]
    \cup [token : {"API_TOKEN"}, from_user : {"u1"}, to_user : {"u2"},
          amount : {0, MaxAmount + 1}, currency : {"gold_dinars"}]
    \cup [token : {"API_TOKEN"}, from_user : {"u1"}, to_user : {"u2"},
          amount : {6000}, currency : {"copper"}]

RacePayRequest ==
    {r \in PayRequest : verify_api_token(r.token) /\ r.currency \in Currency
                           /\ r.amount \in PayAmounts}

AuditPayRequest ==
    {r \in RacePayRequest : r.amount = 6000 /\ r.currency = "gold_dinars"
                                /\ validate_user_id(r.from_user)}

\* transfer_money without the rowcount test that follows the debit
PayResultNoDebitCheck(r) ==
    IF ~verify_api_token(r.token) THEN "unauthorized"
    ELSE IF ~validate_user_id(r.from_user) \/ ~validate_user_id(r.to_user)
    THEN "invalid_user_id"
    ELSE IF ~validate_amount(r.amount) THEN "invalid_amount"
    ELSE IF r.currency \notin Currency THEN "invalid_currency"
    ELSE IF r.from_user = r.to_user THEN "self_transfer"
    ELSE IF CreditRowcount(r.to_user) = 0 THEN "recipient_not_found"
    ELSE "ok"

PayResult(r) ==
    IF ~verify_api_token(r.token) THEN "unauthorized"
    ELSE IF ~validate_user_id(r.from_user) \/ ~validate_user_id(r.to_user)
    THEN "invalid_user_id"
    ELSE IF ~validate_amount(r.amount) THEN "invalid_amount"
    ELSE IF r.currency \notin Currency THEN "invalid_currency"
    ELSE IF r.from_user = r.to_user THEN "self_transfer"
    ELSE IF DebitRowcount(r.from_user, r.currency, r.amount) = 0
    THEN "insufficient_or_no_sender"
    ELSE IF CreditRowcount(r.to_user) = 0 THEN "recipient_not_found"
    ELSE "ok"

NoRollback(before, after) == after

\* conn.rollback(): the table as it was at BEGIN IMMEDIATE
Rollback(before, after) == before

\* One request, from BEGIN IMMEDIATE to commit or rollback: a single step,
\* since the write lock is held throughout.
ApiPay(r) ==
    LET result == PayResult(r)
        debited == AddBalance(users, r.from_user, r.currency, 0 - r.amount)
        credited == AddBalance(debited, r.to_user, r.currency, r.amount)
    IN
    /\ reply' = Reply("api_pay", r.from_user, r.to_user, r.amount,
                      r.currency, 0, result)
    /\ IF result = "ok"
       THEN /\ Len(transactions) + 2 <= MaxTx
            /\ users' = credited
            /\ transactions' = transactions \o
                 << TxRow(r.from_user, "transfer_send", r.amount, r.currency,
                          r.to_user),
                    TxRow(r.to_user, "transfer_receive", r.amount, r.currency,
                          r.from_user) >>
       ELSE IF result = "recipient_not_found"
       THEN /\ users' = Rollback(users, debited)
            /\ UNCHANGED transactions
       ELSE UNCHANGED <<users, transactions>>
    /\ UNCHANGED <<loanTables, jobTables, chat, today,
                   bankTables, monitor, api, checker>>

\* ------------------------------------------------------ /apply_for_loan
PendingCount(u) ==
    Cardinality({i \in 1..Len(loan_applications) :
                   /\ loan_applications[i].borrower_id = u
                   /\ loan_applications[i].status = "pending"})

ApplyResult(u, loan_amount, currency, repayment_days) ==
    IF Lower(currency) \notin Currency THEN "invalid_currency"
    ELSE IF loan_amount <= 0 \/ repayment_days <= 0 THEN "not_positive"
    ELSE IF repayment_days > MaxTermDays THEN "term_too_long"
    ELSE IF PendingCount(u) >= MaxPendingApps THEN "too_many_pending"
    ELSE IF u \notin DOMAIN users THEN "error"   \* borrower_id REFERENCES users
    ELSE "ok"

ApplyForLoan(u, loan_amount, currency, repayment_days) ==
    LET result == ApplyResult(u, loan_amount, currency, repayment_days) IN
    /\ chat.pc = "idle"
    /\ reply' = Reply("apply_for_loan", u, NoUser, loan_amount, currency,
                      IF result = "ok" THEN Len(loan_applications) + 1 ELSE 0,
                      result)
    /\ IF result = "ok"
       THEN /\ Len(loan_applications) < MaxApps
            /\ loan_applications' = Append(loan_applications,
                 [borrower_id |-> u, loan_amount |-> loan_amount,
                  currency |-> currency, repayment_days |-> repayment_days,
                  due_date |-> today + repayment_days,
                  status |-> "pending", funded_by |-> NoUser])
       ELSE UNCHANGED loan_applications
    /\ UNCHANGED <<users, transactions, loans, jobTables, chat, today,
                   bankTables, monitor, api, checker>>

\* ------------------------------------------------------------ /fund_loan
\* The lookup without  AND status = 'pending'
AnyApplication(application_id) ==
    application_id \in 1..Len(loan_applications)

\* SELECT ... FROM loan_applications WHERE id = ? AND status = 'pending'
PendingApplication(application_id) ==
    /\ application_id \in 1..Len(loan_applications)
    /\ loan_applications[application_id].status = "pending"

\* fund_loan without its test of the lender being the borrower
FundReadResultNoSelfTest(u, application_id) ==
    IF ~PendingApplication(application_id) THEN "not_found_or_funded"
    ELSE IF get_user_account(u)[Branch(loan_applications[application_id].currency)]
              < loan_applications[application_id].loan_amount
    THEN "insufficient_funds"
    ELSE "proceed"

FundReadResult(u, application_id) ==
    IF ~PendingApplication(application_id) THEN "not_found_or_funded"
    ELSE IF loan_applications[application_id].borrower_id = u
    THEN "self_funding"
    ELSE IF get_user_account(u)[Branch(loan_applications[application_id].currency)]
              < loan_applications[application_id].loan_amount
    THEN "insufficient_funds"
    ELSE "proceed"

\* fund_loan up to BEGIN IMMEDIATE: the application and the lender's wallet
\* are read; get_user_account creates the lender's account when missing.
FundLoanRead(u, application_id) ==
    LET result == FundReadResult(u, application_id) IN
    /\ chat.pc = "idle"
    /\ users' = IF result \in {"insufficient_funds", "proceed"}
                THEN UsersAfterGet(u) ELSE users
    /\ IF result = "proceed"
       THEN /\ chat' = [pc |-> "fund_loan", user |-> u, id |-> application_id,
                        amount |-> loan_applications[application_id].loan_amount,
                        row |-> loan_applications[application_id],
                        user_data |-> get_user_account(u)]
            /\ UNCHANGED reply
       ELSE /\ reply' = Reply("fund_loan", u, NoUser, 0, "none",
                              application_id, result)
            /\ UNCHANGED chat
    /\ UNCHANGED <<transactions, loanTables, jobTables, today,
                   bankTables, monitor, api, checker>>

\* fund_loan from BEGIN IMMEDIATE to COMMIT.
FundLoanWrite ==
    LET u == chat.user
        app == chat.row
        lender_column == Branch(app.currency)
        new_lender_balance == chat.user_data[lender_column] - app.loan_amount
    IN
    /\ chat.pc = "fund_loan"
    /\ Len(transactions) + 2 <= MaxTx
    /\ users' = AddBalance(SetBalance(users, u, lender_column,
                                      new_lender_balance),
                           app.borrower_id, Column(app.currency),
                           app.loan_amount)
    /\ loans' = Append(loans,
          [lender_id |-> u, borrower_id |-> app.borrower_id,
           loan_amount |-> app.loan_amount, currency |-> app.currency,
           due_date |-> app.due_date, repaid_amount |-> 0,
           status |-> "active"])
    /\ loan_applications' =
          [loan_applications EXCEPT ![chat.id].status = "funded",
                                    ![chat.id].funded_by = u]
    /\ transactions' = transactions \o
          << TxRow(u, "loan_given", app.loan_amount, app.currency,
                   app.borrower_id),
             TxRow(app.borrower_id, "loan_received", app.loan_amount,
                   app.currency, u) >>
    /\ chat' = Idle
    /\ reply' = Reply("fund_loan", u, app.borrower_id, app.loan_amount,
                      app.currency, chat.id, "ok")
    /\ UNCHANGED <<jobTables, today,
                   bankTables, monitor, api, checker>>

\* ----------------------------------------------------------- /repay_loan
\* repay_loan's checks without the test against the remaining amount
RepayReadResultNoRemaining(u, loan_id, repayment_amount) ==
    IF ~(loan_id \in 1..Len(loans) /\ loans[loan_id].borrower_id = u)
    THEN "not_found_or_not_borrower"
    ELSE IF loans[loan_id].status # "active" THEN "not_active"
    ELSE IF repayment_amount <= 0 THEN "not_positive"
    ELSE IF get_user_account(u)[Branch(loans[loan_id].currency)]
              < repayment_amount
    THEN "insufficient_funds"
    ELSE "proceed"

\* repay_loan's checks without the test of the borrower's funds
RepayReadResultNoFunds(u, loan_id, repayment_amount) ==
    IF ~(loan_id \in 1..Len(loans) /\ loans[loan_id].borrower_id = u)
    THEN "not_found_or_not_borrower"
    ELSE IF loans[loan_id].status # "active" THEN "not_active"
    ELSE IF repayment_amount > loans[loan_id].loan_amount
                                 - loans[loan_id].repaid_amount
    THEN "exceeds_remaining"
    ELSE IF repayment_amount <= 0 THEN "not_positive"
    ELSE "proceed"

RepayReadResult(u, loan_id, repayment_amount) ==
    IF ~(loan_id \in 1..Len(loans) /\ loans[loan_id].borrower_id = u)
    THEN "not_found_or_not_borrower"
    ELSE IF loans[loan_id].status # "active" THEN "not_active"
    ELSE IF repayment_amount > loans[loan_id].loan_amount
                                 - loans[loan_id].repaid_amount
    THEN "exceeds_remaining"
    ELSE IF repayment_amount <= 0 THEN "not_positive"
    ELSE IF get_user_account(u)[Branch(loans[loan_id].currency)]
              < repayment_amount
    THEN "insufficient_funds"
    ELSE "proceed"

RepayLoanRead(u, loan_id, repayment_amount) ==
    LET result == RepayReadResult(u, loan_id, repayment_amount) IN
    /\ chat.pc = "idle"
    /\ users' = IF result \in {"insufficient_funds", "proceed"}
                THEN UsersAfterGet(u) ELSE users
    /\ IF result = "proceed"
       THEN /\ chat' = [pc |-> "repay_loan", user |-> u, id |-> loan_id,
                        amount |-> repayment_amount, row |-> loans[loan_id],
                        user_data |-> get_user_account(u)]
            /\ UNCHANGED reply
       ELSE /\ reply' = Reply("repay_loan", u, NoUser, repayment_amount,
                              "none", loan_id, result)
            /\ UNCHANGED chat
    /\ UNCHANGED <<transactions, loanTables, jobTables, today,
                   bankTables, monitor, api, checker>>

\* A repayment that completes the loan whatever is still owed
LoanStatusAlwaysCompleted(new_repaid_amount, loan_amount) == "completed"

LoanStatusAfter(new_repaid_amount, loan_amount) ==
    IF new_repaid_amount >= loan_amount THEN "completed" ELSE "active"

RepayLoanWrite ==
    LET u == chat.user
        loan == chat.row
        repayment_amount == chat.amount
        borrower_column == Branch(loan.currency)
        new_balance == chat.user_data[borrower_column] - repayment_amount
        new_repaid_amount == loan.repaid_amount + repayment_amount
    IN
    /\ chat.pc = "repay_loan"
    /\ Len(transactions) + 2 <= MaxTx
    /\ users' = AddBalance(SetBalance(users, u, borrower_column, new_balance),
                           loan.lender_id, Column(loan.currency),
                           repayment_amount)
    /\ loans' = [loans EXCEPT
          ![chat.id].repaid_amount = new_repaid_amount,
          ![chat.id].status = LoanStatusAfter(new_repaid_amount,
                                              loan.loan_amount)]
    /\ transactions' = transactions \o
          << TxRow(u, "loan_repayment", repayment_amount, loan.currency,
                   loan.lender_id),
             TxRow(loan.lender_id, "loan_repayment_received", repayment_amount,
                   loan.currency, u) >>
    /\ chat' = Idle
    /\ reply' = Reply("repay_loan", u, loan.lender_id, repayment_amount,
                      loan.currency, chat.id, "ok")
    /\ UNCHANGED <<loan_applications, jobTables, today,
                   bankTables, monitor, api, checker>>

\* ----------------------------------------------------------- /give_money
\* The server owner adds money to a wallet.  The wallet is read by
\* get_user_account, then written as an absolute value.
GiveResult(is_owner, amount, currency) ==
    IF ~is_owner THEN "not_owner"
    ELSE IF currency \notin {"gold", "silver"} THEN "invalid_currency"
    ELSE IF amount <= 0 THEN "not_positive"
    ELSE "proceed"

GiveMoneyRead(is_owner, u, amount, currency) ==
    LET result == GiveResult(is_owner, amount, currency) IN
    /\ chat.pc = "idle"
    /\ IF result = "proceed"
       THEN /\ users' = UsersAfterGet(u)
            /\ chat' = [pc |-> "give_money", user |-> u, id |-> 0,
                        amount |-> amount,
                        row |-> [currency |-> IF currency = "gold"
                                              THEN "gold_dinars"
                                              ELSE "silver_dirhams"],
                        user_data |-> get_user_account(u)]
            /\ UNCHANGED reply
       ELSE /\ reply' = Reply("give_money", u, NoUser, amount, currency, 0,
                              result)
            /\ UNCHANGED <<users, chat>>
    /\ UNCHANGED <<transactions, loanTables, jobTables, today,
                   bankTables, monitor, api, checker>>

GiveMoneyWrite ==
    LET u == chat.user
        currency_full == chat.row.currency
        new_balance == chat.user_data[currency_full] + chat.amount
    IN
    /\ chat.pc = "give_money"
    /\ Len(transactions) + 1 <= MaxTx
    /\ users' = SetBalance(users, u, currency_full, new_balance)
    /\ transactions' = Append(transactions,
          TxRow(u, "admin_gift", chat.amount, currency_full, "owner"))
    /\ chat' = Idle
    /\ reply' = Reply("give_money", u, NoUser, chat.amount, currency_full, 0,
                      "ok")
    /\ UNCHANGED <<loanTables, jobTables, today,
                   bankTables, monitor, api, checker>>

\* ------------------------------------------------------------------ /trade
TradeResult(u, partner, amount, currency) ==
    IF currency \notin {"gold", "silver"} THEN "invalid_currency"
    ELSE IF amount <= 0 THEN "not_positive"
    ELSE IF partner = u THEN "self_trade"
    ELSE IF currency = "gold" /\ get_user_account(u).gold_dinars < amount
    THEN "insufficient_gold"
    ELSE IF currency = "silver"
            /\ get_user_account(u).silver_dirhams < amount
    THEN "insufficient_silver"
    ELSE "proposal"

\* The command reads both accounts, which creates the missing ones, and
\* answers with the trade proposal; it has no statement that writes.
Trade(u, partner, amount, currency) ==
    LET result == TradeResult(u, partner, amount, currency) IN
    /\ chat.pc = "idle"
    /\ users' = IF result \in {"insufficient_gold", "insufficient_silver",
                               "proposal"}
                THEN (partner :> NewUserRow) @@ (u :> NewUserRow) @@ users
                ELSE users
    /\ reply' = Reply("trade", u, partner, amount, currency, 0, result)
    /\ UNCHANGED <<transactions, loanTables, jobTables, chat, today,
                   bankTables, monitor, api, checker>>

\* ------------------------------------------------------------ /set_balance
\* The owner sets both wallets of a user; an omitted amount is 0.0.
SetBalanceResult(is_owner, gold_dinars, silver_dirhams) ==
    IF ~is_owner THEN "not_owner"
    ELSE IF gold_dinars < 0 THEN "negative_gold"
    ELSE IF silver_dirhams < 0 THEN "negative_silver"
    ELSE "proceed"

SetBalanceRead(is_owner, u, gold_dinars, silver_dirhams) ==
    LET result == SetBalanceResult(is_owner, gold_dinars, silver_dirhams) IN
    /\ chat.pc = "idle"
    /\ IF result = "proceed"
       THEN /\ users' = UsersAfterGet(u)
            /\ chat' = [pc |-> "set_balance", user |-> u, id |-> 0,
                        amount |-> 0,
                        row |-> [gold_dinars |-> gold_dinars,
                                 silver_dirhams |-> silver_dirhams],
                        user_data |-> get_user_account(u)]
            /\ UNCHANGED reply
       ELSE /\ reply' = Reply("set_balance", u, NoUser, 0, "none", 0, result)
            /\ UNCHANGED <<users, chat>>
    /\ UNCHANGED <<transactions, loanTables, jobTables, today,
                   bankTables, monitor, api, checker>>

\* The admin_adjustment row of one currency: written when the new value
\* differs from the value read by get_user_account.
AdjustmentRows(u, currency, new_value, read_value) ==
    IF new_value # read_value
    THEN << TxRow(u, "admin_adjustment",
                  IF new_value > read_value THEN new_value - read_value
                  ELSE read_value - new_value,
                  currency, "owner") >>
    ELSE <<>>

SetBalanceWrite ==
    LET u == chat.user
        new_gold == chat.row.gold_dinars
        new_silver == chat.row.silver_dirhams
    IN
    /\ chat.pc = "set_balance"
    /\ Len(transactions) + 2 <= MaxTx
    /\ users' = SetBalance(SetBalance(users, u, "gold_dinars", new_gold),
                           u, "silver_dirhams", new_silver)
    /\ transactions' = transactions
          \o AdjustmentRows(u, "gold_dinars", new_gold,
                            chat.user_data.gold_dinars)
          \o AdjustmentRows(u, "silver_dirhams", new_silver,
                            chat.user_data.silver_dirhams)
    /\ chat' = Idle
    /\ reply' = Reply("set_balance", u, NoUser, 0, "none", 0, "ok")
    /\ UNCHANGED <<loanTables, jobTables, today, bankTables, monitor, api, checker>>

\* -------------------------------------------------------------- /pay_zakat
\* calculate_zakat, to the hundredth
calculate_zakat(gold_dinars, silver_dirhams) ==
    LET gold_zakat == IF gold_dinars >= GoldNisab
                      THEN (gold_dinars * ZakatRatePerMille) \div 1000
                      ELSE 0
        silver_zakat == IF silver_dirhams >= SilverNisab
                        THEN (silver_dirhams * ZakatRatePerMille) \div 1000
                        ELSE 0
    IN [gold_zakat |-> gold_zakat, silver_zakat |-> silver_zakat,
        total_zakat |-> gold_zakat + silver_zakat,
        eligible |-> gold_dinars >= GoldNisab
                       \/ silver_dirhams >= SilverNisab]

PayZakatRead(u) ==
    LET user_data == get_user_account(u)
        zakat_info == calculate_zakat(user_data.gold_dinars,
                                      user_data.silver_dirhams)
    IN
    /\ chat.pc = "idle"
    /\ users' = UsersAfterGet(u)
    /\ IF zakat_info.eligible
       THEN /\ chat' = [pc |-> "pay_zakat", user |-> u, id |-> 0,
                        amount |-> zakat_info.total_zakat,
                        row |-> zakat_info, user_data |-> user_data]
            /\ UNCHANGED reply
       ELSE /\ reply' = Reply("pay_zakat", u, NoUser, 0, "none", 0,
                              "not_eligible")
            /\ UNCHANGED chat
    /\ UNCHANGED <<transactions, loanTables, jobTables, today,
                   bankTables, monitor, api, checker>>

PayZakatWrite ==
    LET u == chat.user
        new_gold == chat.user_data.gold_dinars - chat.row.gold_zakat
        new_silver == chat.user_data.silver_dirhams - chat.row.silver_zakat
    IN
    /\ chat.pc = "pay_zakat"
    /\ Len(transactions) + 1 <= MaxTx
    /\ users' = SetBalance(SetBalance(users, u, "gold_dinars", new_gold),
                           u, "silver_dirhams", new_silver)
    /\ transactions' = Append(transactions,
          TxRow(u, "zakat", chat.amount, "mixed", NoUser))
    /\ chat' = Idle
    /\ reply' = Reply("pay_zakat", u, NoUser, chat.amount, "mixed", 0, "ok")
    /\ UNCHANGED <<loanTables, jobTables, today, bankTables, monitor, api, checker>>

\* ------------------------------------------------------ /currency_exchange
ExchangeResult(u, amount, from_currency, to_currency) ==
    IF from_currency \notin {"gold", "silver"}
         \/ to_currency \notin {"gold", "silver"}
    THEN "invalid_currency"
    ELSE IF from_currency = to_currency THEN "same_currency"
    ELSE IF amount <= 0 THEN "not_positive"
    ELSE IF from_currency = "gold"
            /\ get_user_account(u).gold_dinars < amount
    THEN "insufficient_gold"
    ELSE IF from_currency # "gold"
            /\ get_user_account(u).silver_dirhams < amount
    THEN "insufficient_silver"
    ELSE "proceed"

CurrencyExchangeRead(u, amount, from_currency, to_currency) ==
    LET result == ExchangeResult(u, amount, from_currency, to_currency) IN
    /\ chat.pc = "idle"
    /\ users' = IF result \in {"insufficient_gold", "insufficient_silver",
                               "proceed"}
                THEN UsersAfterGet(u) ELSE users
    /\ IF result = "proceed"
       THEN /\ chat' = [pc |-> "currency_exchange", user |-> u, id |-> 0,
                        amount |-> amount,
                        row |-> [from_currency |-> from_currency,
                                 to_currency |-> to_currency],
                        user_data |-> get_user_account(u)]
            /\ UNCHANGED reply
       ELSE /\ reply' = Reply("currency_exchange", u, NoUser, amount,
                              from_currency, 0, result)
            /\ UNCHANGED chat
    /\ UNCHANGED <<transactions, loanTables, jobTables, today,
                   bankTables, monitor, api, checker>>

CurrencyExchangeWrite ==
    LET u == chat.user
        amount == chat.amount
        gold_to_silver == chat.row.from_currency = "gold"
        new_gold == IF gold_to_silver
                    THEN chat.user_data.gold_dinars - amount
                    ELSE chat.user_data.gold_dinars + amount \div ExchangeRate
        new_silver == IF gold_to_silver
                      THEN chat.user_data.silver_dirhams + amount * ExchangeRate
                      ELSE chat.user_data.silver_dirhams - amount
        currency == IF gold_to_silver THEN "gold_to_silver"
                    ELSE "silver_to_gold"
    IN
    /\ chat.pc = "currency_exchange"
    /\ Len(transactions) + 1 <= MaxTx
    /\ users' = SetBalance(SetBalance(users, u, "gold_dinars", new_gold),
                           u, "silver_dirhams", new_silver)
    /\ transactions' = Append(transactions,
          TxRow(u, "currency_exchange", amount, currency, NoUser))
    /\ chat' = Idle
    /\ reply' = Reply("currency_exchange", u, NoUser, amount, currency, 0,
                      "ok")
    /\ UNCHANGED <<loanTables, jobTables, today, bankTables, monitor, api, checker>>

\* -------------------------------------------------------- /start_business
IsAgricultural(business_type) == business_type \in {"agriculture", "organic_farming"}

BusinessTypes ==
    {"agriculture", "halal_restaurant", "islamic_finance", "tech_consulting",
     "renewable_energy", "organic_farming"}

\* biz_info['daily_profit'], with the usher bonus for agriculture, in
\* hundredths (rounded down to the hundredth).
daily_profit(business_type) ==
    LET base == CASE business_type = "agriculture" -> 3000
                  [] business_type = "halal_restaurant" -> 4500
                  [] business_type = "islamic_finance" -> 5000
                  [] business_type = "tech_consulting" -> 3750
                  [] business_type = "renewable_energy" -> 5750
                  [] OTHER -> 3250
    IN IF IsAgricultural(business_type)
       THEN (base * (100 + UsherBonusPct)) \div 100
       ELSE base

startup_cost(business_type) ==
    IF IsAgricultural(business_type)
    THEN (StartupCost * (100 - UsherBonusPct)) \div 100
    ELSE StartupCost

StartBusinessResult(u, business_type) ==
    IF Lower(business_type) \notin BusinessTypes THEN "invalid_type"
    ELSE IF get_user_account(u).gold_dinars < startup_cost(business_type)
    THEN "insufficient_funds"
    ELSE "proceed"

StartBusinessRead(u, business_name, business_type) ==
    LET result == StartBusinessResult(u, business_type) IN
    /\ chat.pc = "idle"
    /\ users' = IF result = "invalid_type" THEN users ELSE UsersAfterGet(u)
    /\ IF result = "proceed"
       THEN /\ chat' = [pc |-> "start_business", user |-> u, id |-> 0,
                        amount |-> startup_cost(business_type),
                        row |-> [business_name |-> business_name,
                                 business_type |-> Lower(business_type)],
                        user_data |-> get_user_account(u)]
            /\ UNCHANGED reply
       ELSE /\ reply' = Reply("start_business", u, NoUser, 0, "gold_dinars",
                              0, result)
            /\ UNCHANGED chat
    /\ UNCHANGED <<transactions, loanTables, jobTables, today,
                   bankTables, monitor, api, checker>>

StartBusinessWrite ==
    LET u == chat.user
        new_gold == chat.user_data.gold_dinars - chat.amount
    IN
    /\ chat.pc = "start_business"
    /\ Len(transactions) + 1 <= MaxTx
    /\ users' = SetBalance(users, u, "gold_dinars", new_gold)
    /\ businesses' = Append(businesses,
          [user_id |-> u, business_name |-> chat.row.business_name,
           business_type |-> chat.row.business_type,
           startup_cost |-> chat.amount, status |-> "active",
           has_license |-> TRUE,
           daily_profit |-> daily_profit(chat.row.business_type),
           created_date |-> today, last_collection_date |-> NoDate])
    /\ transactions' = Append(transactions,
          TxRow(u, "business_startup", chat.amount, "gold_dinars", NoUser))
    /\ chat' = Idle
    /\ reply' = Reply("start_business", u, NoUser, chat.amount, "gold_dinars",
                      Len(businesses) + 1, "ok")
    /\ UNCHANGED <<loanTables, job_postings, user_employment, today,
                   bankTables, monitor, api, checker>>

\* --------------------------------------------------------------- /post_job
\* SELECT id FROM businesses WHERE user_id = ? AND business_name = ?
\*   AND status = 'active'   (fetchone: the first match, 0 when none)
OwnedBusiness(u, business_name) ==
    LET hits == {i \in 1..Len(businesses) :
                   /\ businesses[i].user_id = u
                   /\ businesses[i].business_name = business_name
                   /\ businesses[i].status = "active"}
    IN IF hits = {} THEN 0 ELSE CHOOSE i \in hits : \A j \in hits : i <= j

PostJobResult(u, business_name, salary, currency) ==
    IF Lower(currency) \notin Currency THEN "invalid_currency"
    ELSE IF salary <= 0 THEN "not_positive"
    ELSE IF OwnedBusiness(u, business_name) = 0 THEN "business_not_found"
    ELSE "ok"

PostJob(u, business_name, salary, currency) ==
    LET result == PostJobResult(u, business_name, salary, currency) IN
    /\ chat.pc = "idle"
    /\ reply' = Reply("post_job", u, NoUser, salary, currency,
                      IF result = "ok" THEN Len(job_postings) + 1 ELSE 0,
                      result)
    /\ IF result = "ok"
       THEN /\ Len(job_postings) < MaxJobs
            /\ job_postings' = Append(job_postings,
                 [employer_id |-> u,
                  business_id |-> OwnedBusiness(u, business_name),
                  salary |-> salary, currency |-> currency,
                  status |-> "open"])
       ELSE UNCHANGED job_postings
    /\ UNCHANGED <<users, transactions, loanTables, businesses,
                   user_employment, chat, today,
                   bankTables, monitor, api, checker>>

\* -------------------------------------------------------------- /apply_job
\* SELECT ... FROM job_postings jp JOIN businesses b ... JOIN users u ...
\*   WHERE jp.id = ? AND jp.status = 'open' AND b.status = 'active'
OpenPosting(job_id) ==
    /\ job_id \in 1..Len(job_postings)
    /\ job_postings[job_id].status = "open"
    /\ businesses[job_postings[job_id].business_id].status = "active"
    /\ job_postings[job_id].employer_id \in DOMAIN users

\* SELECT ... FROM user_employment WHERE employee_id = ? AND status = 'active'
ActiveEmployment(u) ==
    LET hits == {i \in 1..Len(user_employment) :
                   /\ user_employment[i].employee_id = u
                   /\ user_employment[i].status = "active"}
    IN IF hits = {} THEN 0 ELSE CHOOSE i \in hits : \A j \in hits : i <= j

ApplyJobResult(u, job_id) ==
    IF ~OpenPosting(job_id) THEN "posting_not_found"
    ELSE IF job_postings[job_id].employer_id = u THEN "own_posting"
    ELSE IF ActiveEmployment(u) # 0 THEN "already_employed"
    ELSE "ok"

ApplyJob(u, job_id) ==
    LET result == ApplyJobResult(u, job_id) IN
    /\ chat.pc = "idle"
    /\ reply' = Reply("apply_job", u, NoUser, 0, "none", job_id, result)
    /\ IF result = "ok"
       THEN /\ user_employment' = Append(user_employment,
                 [employer_id |-> job_postings[job_id].employer_id,
                  employee_id |-> u,
                  business_id |-> job_postings[job_id].business_id,
                  salary |-> job_postings[job_id].salary,
                  currency |-> job_postings[job_id].currency,
                  status |-> "active"])
            /\ job_postings' = [job_postings EXCEPT ![job_id].status = "filled"]
       ELSE UNCHANGED <<job_postings, user_employment>>
    /\ UNCHANGED <<users, transactions, loanTables, businesses, chat, today,
                   bankTables, monitor, api, checker>>

\* ---------------------------------------------------------- /work_for_user
calculate_taxes(income, currency) ==
    LET threshold == IF currency = "gold_dinars" THEN GoldTaxThreshold
                     ELSE SilverTaxThreshold
    IN IF income > threshold
       THEN ((income - threshold) * TaxRatePct) \div 100
       ELSE 0

\* SELECT ... FROM user_employment ue JOIN businesses b ... JOIN users u ...
\*   WHERE ue.employee_id = ? AND ue.status = 'active' AND b.status = 'active'
WorkingEmployment(u) ==
    LET hits == {i \in 1..Len(user_employment) :
                   /\ user_employment[i].employee_id = u
                   /\ user_employment[i].status = "active"
                   /\ businesses[user_employment[i].business_id].status = "active"
                   /\ user_employment[i].employer_id \in DOMAIN users}
    IN IF hits = {} THEN 0 ELSE CHOOSE i \in hits : \A j \in hits : i <= j

\* work_for_user up to its first UPDATE: the employment and the employee's
\* wallet are read.
WorkForUserRead(u) ==
    /\ chat.pc = "idle"
    /\ IF WorkingEmployment(u) # 0
       THEN /\ users' = UsersAfterGet(u)
            /\ chat' = [pc |-> "work_for_user", user |-> u,
                        id |-> WorkingEmployment(u),
                        amount |-> user_employment[WorkingEmployment(u)].salary,
                        row |-> user_employment[WorkingEmployment(u)],
                        user_data |-> get_user_account(u)]
            /\ UNCHANGED reply
       ELSE /\ reply' = Reply("work_for_user", u, NoUser, 0, "none", 0,
                              "no_employment")
            /\ UNCHANGED <<users, chat>>
    /\ UNCHANGED <<transactions, loanTables, jobTables, today,
                   bankTables, monitor, api, checker>>

\* The employer's new balance: the employer's wallet, read by
\* get_user_account inside the open transaction, less the salary.
EmployerBalance(employer_id, column, salary) ==
    users[employer_id][column] - salary

\* work_for_user from its first UPDATE to the commit.
WorkForUserWrite ==
    LET u == chat.user
        job == chat.row
        column == Branch(job.currency)
        taxes == calculate_taxes(job.salary, job.currency)
        net_pay == job.salary - taxes
    IN
    /\ chat.pc = "work_for_user"
    /\ Len(transactions) + 2 <= MaxTx
    /\ users' = SetBalance(
                   SetBalance(users, u, column,
                              chat.user_data[column] + net_pay),
                   job.employer_id, column,
                   EmployerBalance(job.employer_id, column, job.salary))
    /\ transactions' = transactions \o
          << TxRow(u, "employment_income", net_pay, job.currency, NoUser),
             TxRow(job.employer_id, "employment_expense", job.salary,
                   job.currency, NoUser) >>
    /\ chat' = Idle
    /\ reply' = Reply("work_for_user", u, job.employer_id, job.salary,
                      job.currency, chat.id, "ok")
    /\ UNCHANGED <<loanTables, jobTables, today,
                   bankTables, monitor, api, checker>>

\* ------------------------------------------------------------------ clock
Tick ==
    /\ today < MaxDay
    /\ today' = today + 1
    /\ UNCHANGED <<users, transactions, loanTables, jobTables, chat, reply,
                   bankTables, monitor, api, checker>>

\* ------------------------------------------------------ bank accounts
\* A bank_ledger row, and the CHECK constraints of the table on it.
LedgerRow(account_id, entry_type, amount, currency, counterparty, user_id) ==
    [account_id |-> account_id, entry_type |-> entry_type, amount |-> amount,
     currency |-> currency, counterparty_account_id |-> counterparty,
     created_by_user_id |-> user_id]

LedgerCheck(row) ==
    /\ row.entry_type \in {"deposit", "withdrawal", "transfer_in",
                            "transfer_out", "profit_share", "service_fee"}
    /\ row.amount > 0
    /\ row.currency \in Currency

\* SELECT ... FROM bank_accounts ba JOIN businesses b ...
\*   WHERE ba.id = ? AND ba.status = 'active'
ActiveAccount(account_id) ==
    /\ account_id \in 1..Len(bank_accounts)
    /\ bank_accounts[account_id].status = "active"
    /\ bank_accounts[account_id].institution_business_id
          \in 1..Len(businesses)

\* The owner, or a permission row with role owner, joint_owner or manager
HasPermission(account_id, user_id) ==
    \/ bank_accounts[account_id].owner_user_id = user_id
    \/ \E perm \in bank_account_permissions :
          /\ perm.account_id = account_id
          /\ perm.user_id = user_id
          /\ perm.role \in {"owner", "joint_owner", "manager"}

get_user_account_count(user_id, institution_id) ==
    Cardinality({i \in 1..Len(bank_accounts) :
        /\ bank_accounts[i].owner_user_id = user_id
        /\ bank_accounts[i].institution_business_id = institution_id
        /\ bank_accounts[i].status = "active"})

\* SELECT ... FROM businesses WHERE id = ? AND business_type =
\*   'islamic_finance' AND status = 'active' AND license_code IS NOT NULL
EligibleInstitution(institution_id) ==
    /\ institution_id \in 1..Len(businesses)
    /\ businesses[institution_id].business_type = "islamic_finance"
    /\ businesses[institution_id].status = "active"
    /\ businesses[institution_id].has_license

\* create_bank_account without the checks of profit_share_ratio
CreateValidationNoRatio(account_type, currency, ratio) ==
    IF account_type \notin {"wadiah", "mudarabah"} THEN "invalid_account_type"
    ELSE IF currency \notin Currency THEN "invalid_currency"
    ELSE "proceed"

\* The checks of create_bank_account on its arguments
CreateValidation(account_type, currency, ratio) ==
    IF account_type \notin {"wadiah", "mudarabah"} THEN "invalid_account_type"
    ELSE IF currency \notin Currency THEN "invalid_currency"
    ELSE IF /\ account_type = "mudarabah"
            /\ (ratio.is_none \/ ratio.value < 0 \/ ratio.value > 100)
    THEN "ratio_required"
    ELSE IF account_type # "mudarabah" /\ ~ratio.is_none
    THEN "wadiah_with_ratio"
    ELSE "proceed"

\* The ledger row that records the opening
OpeningRow(account_id, currency, user_id) ==
    LedgerRow(account_id, "deposit", 0, currency, 0, user_id)

CreateResult(owner, institution_id, account_type, currency, ratio) ==
    IF CreateValidation(account_type, currency, ratio) # "proceed"
    THEN CreateValidation(account_type, currency, ratio)
    ELSE IF get_user_account_count(owner, institution_id) >= MaxAccounts
    THEN "limit_reached"
    ELSE IF ~EligibleInstitution(institution_id)
    THEN "institution_not_found"
    ELSE IF ~LedgerCheck(OpeningRow(Len(bank_accounts) + 1, currency, owner))
    THEN "database_error"
    ELSE "ok"

\* create_bank_account: the three INSERTs are committed together, or the
\* connection is closed on the exception and none of them is kept.
CreateBankAccount(owner, institution_id, account_type, currency, ratio) ==
    LET result == CreateResult(owner, institution_id, account_type, currency,
                               ratio)
        account_id == Len(bank_accounts) + 1
    IN
    /\ chat.pc = "idle"
    /\ reply' = Reply("create_bank_account", owner, NoUser, 0, currency,
                      institution_id, result)
    /\ IF result = "ok"
       THEN /\ bank_accounts' = Append(bank_accounts,
                  [institution_business_id |-> institution_id,
                   owner_user_id |-> owner, account_type |-> account_type,
                   currency |-> currency, balance |-> 0,
                   profit_share_ratio |-> ratio, status |-> "active"])
            /\ bank_account_permissions' = bank_account_permissions \cup
                  {[account_id |-> account_id, user_id |-> owner,
                    role |-> "owner"]}
            /\ bank_ledger' = Append(bank_ledger,
                  OpeningRow(account_id, currency, owner))
       ELSE UNCHANGED bankTables
    /\ UNCHANGED <<users, transactions, loanTables, jobTables, chat, today,
                   monitor, api, checker>>

\* bank_deposit and bank_withdraw up to the statements that write
DepositResult(account_id, user_id, amount) ==
    IF amount <= 0 THEN "not_positive"
    ELSE IF ~ActiveAccount(account_id) THEN "account_not_found"
    ELSE IF ~HasPermission(account_id, user_id) THEN "no_permission"
    ELSE IF get_user_account(user_id)[Branch(bank_accounts[account_id].currency)]
              < amount
    THEN "insufficient_wallet"
    ELSE "ok"

WithdrawResult(account_id, user_id, amount) ==
    IF amount <= 0 THEN "not_positive"
    ELSE IF ~ActiveAccount(account_id) THEN "account_not_found"
    ELSE IF ~HasPermission(account_id, user_id) THEN "no_permission"
    ELSE IF bank_accounts[account_id].balance < amount
    THEN "insufficient_balance"
    ELSE "ok"

\* bank_deposit(account_id, user_id, amount). get_user_account is called,
\* and may insert the caller's row, only for a permitted caller.
BankDeposit(account_id, user_id, amount) ==
    LET result == DepositResult(account_id, user_id, amount)
        currency == bank_accounts[account_id].currency
        user_data == get_user_account(user_id)
    IN
    /\ chat.pc = "idle"
    /\ reply' = Reply("bank_deposit", user_id, NoUser, amount, "none",
                      account_id, result)
    /\ IF result = "ok"
       THEN /\ Len(transactions) + 1 <= MaxTx
            /\ users' = SetBalance(UsersAfterGet(user_id), user_id,
                                   Branch(currency),
                                   user_data[Branch(currency)] - amount)
            /\ bank_accounts' = [bank_accounts EXCEPT
                                   ![account_id].balance = @ + amount]
            /\ bank_ledger' = Append(bank_ledger,
                  LedgerRow(account_id, "deposit", amount, currency, 0,
                            user_id))
            /\ transactions' = Append(transactions,
                  TxRow(user_id, "bank_deposit", amount, currency, NoUser))
       ELSE /\ users' = IF result = "insufficient_wallet"
                        THEN UsersAfterGet(user_id) ELSE users
            /\ UNCHANGED <<bank_accounts, bank_ledger, transactions>>
    /\ UNCHANGED <<bank_account_permissions, loanTables, jobTables, chat,
                   today, monitor, api, checker>>

\* bank_withdraw(account_id, user_id, amount)
BankWithdraw(account_id, user_id, amount) ==
    LET result == WithdrawResult(account_id, user_id, amount)
        currency == bank_accounts[account_id].currency
        user_data == get_user_account(user_id)
    IN
    /\ chat.pc = "idle"
    /\ reply' = Reply("bank_withdraw", user_id, NoUser, amount, "none",
                      account_id, result)
    /\ IF result = "ok"
       THEN /\ Len(transactions) + 1 <= MaxTx
            /\ bank_accounts' = [bank_accounts EXCEPT
                                   ![account_id].balance = @ - amount]
            /\ users' = SetBalance(UsersAfterGet(user_id), user_id,
                                   Branch(currency),
                                   user_data[Branch(currency)] + amount)
            /\ bank_ledger' = Append(bank_ledger,
                  LedgerRow(account_id, "withdrawal", amount, currency, 0,
                            user_id))
            /\ transactions' = Append(transactions,
                  TxRow(user_id, "bank_withdrawal", amount, currency, NoUser))
       ELSE UNCHANGED <<users, bank_accounts, bank_ledger, transactions>>
    /\ UNCHANGED <<bank_account_permissions, loanTables, jobTables, chat,
                   today, monitor, api, checker>>

TransferResult(from_account_id, to_account_id, user_id, amount) ==
    IF amount <= 0 THEN "not_positive"
    ELSE IF from_account_id = to_account_id THEN "same_account"
    ELSE IF ~ActiveAccount(from_account_id) \/ ~ActiveAccount(to_account_id)
    THEN "accounts_not_found"
    ELSE IF bank_accounts[from_account_id].currency
              # bank_accounts[to_account_id].currency
    THEN "currency_mismatch"
    ELSE IF ~HasPermission(from_account_id, user_id) THEN "no_permission"
    ELSE IF bank_accounts[from_account_id].balance < amount
    THEN "insufficient_balance"
    ELSE "ok"

\* bank_transfer(from_account_id, to_account_id, user_id, amount)
BankTransfer(from_account_id, to_account_id, user_id, amount) ==
    LET result == TransferResult(from_account_id, to_account_id, user_id,
                                 amount)
        currency == bank_accounts[from_account_id].currency
    IN
    /\ chat.pc = "idle"
    /\ reply' = Reply("bank_transfer", user_id, NoUser, amount, "none",
                      from_account_id, result)
    /\ IF result = "ok"
       THEN /\ Len(transactions) + 1 <= MaxTx
            /\ bank_accounts' = [bank_accounts EXCEPT
                                   ![from_account_id].balance = @ - amount,
                                   ![to_account_id].balance = @ + amount]
            /\ bank_ledger' = bank_ledger \o
                  << LedgerRow(from_account_id, "transfer_out", amount,
                               currency, to_account_id, user_id),
                     LedgerRow(to_account_id, "transfer_in", amount,
                               currency, from_account_id, user_id) >>
            /\ transactions' = Append(transactions,
                  TxRow(user_id, "bank_transfer", amount, currency, NoUser))
       ELSE UNCHANGED <<bank_accounts, bank_ledger, transactions>>
    /\ UNCHANGED <<users, bank_account_permissions, loanTables, jobTables,
                   chat, today, monitor, api, checker>>

\* ------------------------------------------------------ business profits
\* The time a business last paid out: last_collection_date if available,
\* otherwise created_date.
last_time(b) ==
    IF b.last_collection_date # NoDate THEN b.last_collection_date
    ELSE b.created_date

hours_passed(b) == (today - last_time(b)) * 24

\* int(hours_passed // 4)
periods_passed(b) == hours_passed(b) \div PeriodHours

\* period_profit * periods_passed, with period_profit = daily_profit / 6
available_profit(b) == (b.daily_profit * periods_passed(b)) \div PeriodsPerDay

\* SELECT ... FROM businesses WHERE user_id = ? AND status = 'active'
ActiveBusinesses(user_id) ==
    {i \in 1..Len(businesses) :
        businesses[i].user_id = user_id /\ businesses[i].status = "active"}

businesses_to_update(user_id) ==
    {i \in ActiveBusinesses(user_id) :
        available_profit(businesses[i]) > MinCollect}

RECURSIVE SumProfit(_)
SumProfit(ids) ==
    IF ids = {} THEN 0
    ELSE LET i == CHOOSE j \in ids : TRUE
         IN available_profit(businesses[i]) + SumProfit(ids \ {i})

total_profit(user_id) == SumProfit(businesses_to_update(user_id))

\* UPDATE businesses SET last_collection_date = now WHERE id = ?
CollectedBusinesses(ids) ==
    [i \in 1..Len(businesses) |->
        IF i \in ids
        THEN [businesses[i] EXCEPT !.last_collection_date = today]
        ELSE businesses[i]]

\* --------------------------------------------------- GET /api/balance/<id>
BalanceResult(token, user_id) ==
    IF ~verify_api_token(token) THEN "unauthorized"
    ELSE IF ~validate_user_id(user_id) THEN "invalid_user_id"
    ELSE IF user_id \in DOMAIN users THEN "ok"
    ELSE "not_found"

ApiBalance(token, user_id) ==
    LET result == BalanceResult(token, user_id) IN
    /\ reply' = Reply("api_balance", user_id, NoUser,
                      IF result = "ok" THEN users[user_id].gold_dinars ELSE 0,
                      "gold_dinars", 0, result)
    /\ UNCHANGED <<users, transactions, loanTables, jobTables, chat, today,
                   bankTables, monitor, api, checker>>

\* ------------------------------------------------ GET /api/businesses/<id>
BusinessesResult(token, user_id) ==
    IF ~verify_api_token(token) THEN "unauthorized"
    ELSE IF ~validate_user_id(user_id) THEN "invalid_user_id"
    ELSE "ok"

\* The answer lists the user's businesses; the reply keeps their number.
ApiBusinesses(token, user_id) ==
    LET result == BusinessesResult(token, user_id) IN
    /\ reply' = Reply("api_businesses", user_id, NoUser,
                      IF result = "ok"
                      THEN Cardinality({i \in 1..Len(businesses) :
                                          businesses[i].user_id = user_id})
                      ELSE 0,
                      "none", 0, result)
    /\ UNCHANGED <<users, transactions, loanTables, jobTables, chat, today,
                   bankTables, monitor, api, checker>>

\* -------------------------------------------- POST /api/collect_profit/<id>
CollectResult(token, user_id) ==
    IF ~verify_api_token(token) THEN "unauthorized"
    ELSE IF ~validate_user_id(user_id) THEN "invalid_user_id"
    ELSE IF ActiveBusinesses(user_id) = {} THEN "no_businesses"
    ELSE IF total_profit(user_id) < MinCollect THEN "no_profit"
    ELSE "proceed"

\* Up to the first write: the checks, the SELECT and the sum.
ApiCollectProfitRead(t, token, user_id) ==
    LET result == CollectResult(token, user_id) IN
    /\ api[t].pc = "idle"
    /\ IF result = "proceed"
       THEN /\ api' = [api EXCEPT ![t] =
                         [pc |-> "collect", user |-> user_id,
                          total_profit |-> total_profit(user_id),
                          businesses_to_update |->
                              businesses_to_update(user_id)]]
            /\ UNCHANGED reply
       ELSE /\ reply' = Reply("api_collect_profit", user_id, NoUser, 0,
                              "gold_dinars", 0, result)
            /\ UNCHANGED api
    /\ UNCHANGED <<users, transactions, loanTables, jobTables, chat, today,
                   bankTables, monitor, checker>>

\* The writes and the commit: the wallet is raised by the sum read before.
ApiCollectProfitWrite(t) ==
    LET u == api[t].user IN
    /\ api[t].pc = "collect"
    /\ Len(transactions) + 1 <= MaxTx
    /\ users' = AddBalance(users, u, "gold_dinars", api[t].total_profit)
    /\ businesses' = CollectedBusinesses(api[t].businesses_to_update)
    /\ transactions' = Append(transactions,
          TxRow(u, "business_profit", api[t].total_profit, "gold_dinars",
                NoUser))
    /\ api' = [api EXCEPT ![t] = ApiIdle]
    /\ reply' = Reply("api_collect_profit", u, NoUser, api[t].total_profit,
                      "gold_dinars", 0, "ok")
    /\ UNCHANGED <<loanTables, job_postings, user_employment, chat, today,
                   bankTables, monitor, checker>>

\* ---------------------------------------------------- /collect_profit (chat)
ChatCollectResult(u) ==
    IF ActiveBusinesses(u) = {} THEN "no_businesses"
    ELSE IF total_profit(u) < MinCollect THEN "no_profit"
    ELSE "proceed"

CollectProfitRead(u) ==
    LET result == ChatCollectResult(u) IN
    /\ chat.pc = "idle"
    /\ IF result = "proceed"
       THEN /\ chat' = [pc |-> "collect_profit", user |-> u, id |-> 0,
                        amount |-> total_profit(u),
                        row |-> [businesses_to_update |->
                                     businesses_to_update(u)],
                        user_data |-> <<>>]
            /\ UNCHANGED reply
       ELSE /\ reply' = Reply("collect_profit", u, NoUser, 0, "gold_dinars",
                              0, result)
            /\ UNCHANGED chat
    /\ UNCHANGED <<users, transactions, loanTables, jobTables, today,
                   bankTables, monitor, api, checker>>

\* The account is read here, after the sum, and its wallet overwritten.
CollectProfitWrite ==
    LET u == chat.user
        taxes == calculate_taxes(chat.amount, "gold_dinars")
        net_profit == chat.amount - taxes
        new_gold == get_user_account(u).gold_dinars + net_profit
    IN
    /\ chat.pc = "collect_profit"
    /\ Len(transactions) + 1 <= MaxTx
    /\ users' = SetBalance(UsersAfterGet(u), u, "gold_dinars", new_gold)
    /\ businesses' = CollectedBusinesses(chat.row.businesses_to_update)
    /\ transactions' = Append(transactions,
          TxRow(u, "business_profit", net_profit, "gold_dinars", NoUser))
    /\ chat' = Idle
    /\ reply' = Reply("collect_profit", u, NoUser, net_profit, "gold_dinars",
                      0, "ok")
    /\ UNCHANGED <<loanTables, job_postings, user_employment, today,
                   bankTables, monitor, api, checker>>

\* ------------------------------------------------ overdue-loan monitor
\* Days go by while the monitor sleeps and no command is running.
DaysPass(d) ==
    /\ chat.pc = "idle"
    /\ sweep.pc = "sleeping"
    /\ today + d <= MaxSweepDay
    /\ today' = today + d
    /\ UNCHANGED <<users, transactions, loanTables, jobTables, chat, reply,
                   bankTables, monitor, api, checker>>

\* check_overdue_loans: the rows
\*   SELECT DISTINCT borrower_id, due_date, loan_amount, repaid_amount, id
\*   FROM loans WHERE status = 'active' AND due_date < (today - 14 days)
\*     AND repaid_amount < loan_amount
\* as a sequence in id order.
RECURSIVE OverdueFrom(_)
OverdueFrom(i) ==
    IF i > Len(loans) THEN <<>>
    ELSE (IF /\ loans[i].status = "active"
             /\ loans[i].due_date < today - ResetDays
             /\ loans[i].repaid_amount < loans[i].loan_amount
          THEN << [borrower_id |-> loans[i].borrower_id,
                   due_date |-> loans[i].due_date,
                   loan_amount |-> loans[i].loan_amount,
                   repaid_amount |-> loans[i].repaid_amount,
                   id |-> i] >>
          ELSE <<>>) \o OverdueFrom(i + 1)

check_overdue_loans == OverdueFrom(1)

\* Columns of the users table, and the columns reset_user_data's
\* UPDATE users SET ... assigns.
UsersColumns ==
    {"user_id", "username", "gold_dinars", "silver_dirhams",
     "last_zakat_payment", "total_charity", "created_at"}

ResetColumns ==
    {"gold_dinars", "silver_dirhams", "last_work_date",
     "last_community_service", "last_quran_recitation",
     "last_skill_development", "last_mentoring", "current_job",
     "daily_earnings", "skill_count", "charity_count", "quran_count",
     "mentoring_count", "service_count"}

\* The UPDATE is prepared only when every column it names exists; otherwise
\* it raises and reset_user_data returns False.
ResetStatementsRun == ResetColumns \subseteq UsersColumns

\* A failure that takes the committed rows with it
DiscardCommitted(before, after) == <<>>

\* What an exception leaves of the statements already executed
KeepExecuted(before, after) == after

\* ... nothing: the connection is dropped without commit.
Discard(before, after) == before

\* The tables as reset_user_data's statements leave them for user_id.
ResetTransactions(user_id) ==
    Append(transactions, TxRow(user_id, "account_reset", 0, "system", NoUser))

ResetUsers(user_id) ==
    SetBalance(SetBalance(users, user_id, "gold_dinars", 0),
               user_id, "silver_dirhams", 0)

ResetBusinesses(user_id) ==
    [i \in 1..Len(businesses) |->
        IF businesses[i].user_id = user_id /\ businesses[i].status = "active"
        THEN [businesses[i] EXCEPT !.status = "closed"]
        ELSE businesses[i]]

ResetApplications(user_id) ==
    [i \in 1..Len(loan_applications) |->
        IF /\ loan_applications[i].borrower_id = user_id
           /\ loan_applications[i].status = "pending"
        THEN [loan_applications[i] EXCEPT !.status = "cancelled"]
        ELSE loan_applications[i]]

ResetLoans(user_id) ==
    [i \in 1..Len(loans) |->
        IF loans[i].borrower_id = user_id /\ loans[i].status = "active"
        THEN [loans[i] EXCEPT !.status = "defaulted"]
        ELSE loans[i]]

\* reset_user_data(user_id): one implicit transaction, committed at the end.
reset_user_data(user_id) ==
    IF ResetStatementsRun
    THEN /\ transactions' = ResetTransactions(user_id)
         /\ users' = ResetUsers(user_id)
         /\ businesses' = ResetBusinesses(user_id)
         /\ loan_applications' = ResetApplications(user_id)
         /\ loans' = ResetLoans(user_id)
    ELSE /\ transactions' = Discard(transactions, ResetTransactions(user_id))
         /\ UNCHANGED <<users, businesses, loan_applications, loans>>

\* process_overdue_loans up to its loop: the overdue loans are read.
SweepStart ==
    /\ chat.pc = "idle"
    /\ sweep.pc = "sleeping"
    /\ IF check_overdue_loans = <<>>
       THEN /\ reply' = Reply("process_overdue_loans", NoUser, NoUser, 0,
                              "none", 0, "completed")
            /\ UNCHANGED sweep
       ELSE /\ sweep' = [pc |-> "processing",
                         overdue_loans |-> check_overdue_loans,
                         processed_users |-> {}]
            /\ UNCHANGED reply
    /\ UNCHANGED <<users, transactions, loanTables, jobTables, chat, today,
                   bankTables, notice, api>>

\* What an iteration does with a row: skip a borrower already processed in
\* this sweep, reset, warn, or nothing.
SweepBranchNoSkip(user_id, days_overdue) ==
    IF days_overdue >= ResetDays THEN "reset"
    ELSE IF days_overdue >= WarningDays THEN "warning"
    ELSE "none"

SweepBranch(user_id, days_overdue) ==
    IF user_id \in sweep.processed_users THEN "continue"
    ELSE IF days_overdue >= ResetDays THEN "reset"
    ELSE IF days_overdue >= WarningDays THEN "warning"
    ELSE "none"

\* The loop after an iteration: on to the rest of the rows, whether the
\* reset succeeded or not; the borrower counts as processed.
SweepAfterAbort(rest, branch, user_id) ==
    IF rest = <<>> \/ (branch = "reset" /\ ~ResetStatementsRun)
    THEN SweepIdle
    ELSE [sweep EXCEPT
            !.overdue_loans = rest,
            !.processed_users =
                IF branch \in {"reset", "warning"}
                THEN @ \cup {user_id} ELSE @]

SweepAfter(rest, branch, user_id) ==
    IF rest = <<>> THEN SweepIdle
    ELSE [sweep EXCEPT
            !.overdue_loans = rest,
            !.processed_users =
                IF branch \in {"reset", "warning"}
                THEN @ \cup {user_id} ELSE @]

\* One iteration of the loop, for the loan row read by SweepStart.
SweepStep ==
    LET loan_data == Head(sweep.overdue_loans)
        rest == Tail(sweep.overdue_loans)
        user_id == loan_data.borrower_id
        loan_id == loan_data.id
        days_overdue == today - loan_data.due_date
        remaining == loan_data.loan_amount - loan_data.repaid_amount
        branch == SweepBranch(user_id, days_overdue)
    IN
    /\ chat.pc = "idle"
    /\ sweep.pc = "processing"
    /\ IF branch = "reset"
       THEN /\ reset_user_data(user_id)
            /\ reply' = Reply("reset_user_data", user_id, NoUser, remaining,
                              "system", loan_id,
                              IF ResetStatementsRun THEN "ok" ELSE "error")
            /\ notice' = IF ResetStatementsRun
                         THEN notice \cup {[user |-> user_id, kind |-> "reset"]}
                         ELSE notice
       ELSE /\ notice' = IF branch = "warning"
                         THEN notice \cup {[user |-> user_id,
                                            kind |-> "warning"]}
                         ELSE notice
            /\ reply' = IF rest = <<>>
                        THEN Reply("process_overdue_loans", NoUser, NoUser, 0,
                                   "none", 0, "completed")
                        ELSE reply
            /\ UNCHANGED <<users, transactions, businesses, loan_applications,
                           loans>>
    /\ sweep' = SweepAfter(rest, branch, user_id)
    /\ UNCHANGED <<job_postings, user_employment, chat, today, bankTables,
                   api>>

\* -------------------------------------------------- overdue_loan_checker
\* await asyncio.sleep(86400): the loop's sleep before every sweep.
CheckerSleep ==
    /\ checker.pc = "sleep"
    /\ chat.pc = "idle"
    /\ today + 1 <= MaxSweepDay
    /\ today' = today + 1
    /\ checker' = [checker EXCEPT !.pc = "call",
                                  !.slept = @ + PeriodSleepHours]
    /\ UNCHANGED <<users, transactions, loanTables, jobTables, chat, reply,
                   bankTables, monitor, api>>

\* What the loop does when process_overdue_loans has returned: the next
\* iteration, which starts with the sleep.
CheckerReturned == [checker EXCEPT !.pc = "sleep", !.slept = 0,
                                   !.failed = FALSE]

\* await process_overdue_loans(): the call, up to the sweep's loop.
CheckerCall ==
    /\ checker.pc = "call"
    /\ SweepStart
    /\ checker' = IF sweep'.pc = "sleeping" THEN CheckerReturned
                  ELSE [checker EXCEPT !.pc = "sweeping"]

\* The sweep's loop, run inside the call.
CheckerStep ==
    /\ checker.pc = "sweeping"
    /\ SweepStep
    /\ checker' = IF sweep'.pc = "sleeping" THEN CheckerReturned
                  ELSE checker

\* except Exception: the call has raised; the sweep is abandoned.
CheckerRaise ==
    /\ checker.pc \in {"call", "sweeping"}
    /\ chat.pc = "idle"
    /\ sweep' = SweepIdle
    /\ checker' = [checker EXCEPT !.pc = "backoff", !.slept = 0,
                                  !.failed = TRUE]
    /\ reply' = Reply("process_overdue_loans", NoUser, NoUser, 0, "none", 0,
                      "raised")
    /\ UNCHANGED <<users, transactions, loanTables, jobTables, chat, today,
                   bankTables, notice, api>>

\* await asyncio.sleep(3600) in the handler; the loop then starts over.
\* The date, which the sweep compares by the day, stays as it is.
CheckerBackoff ==
    /\ checker.pc = "backoff"
    /\ chat.pc = "idle"
    /\ checker' = [checker EXCEPT !.pc = "sleep",
                                  !.slept = @ + BackoffHours]
    /\ UNCHANGED <<users, transactions, loanTables, jobTables, chat, reply,
                   today, bankTables, monitor, api>>

\* ----------------------------------------------------------- scheduling
\* The HTTP API: its handlers run in the Flask thread.
NextPay ==
    \/ \E u \in UserId : Bank(u)
    \/ \E r \in PayRequest : ApiPay(r)

\* The loan commands.
NextLoan ==
    \/ \E u \in UserId : Bank(u)
    \/ \E u \in UserId, a \in LoanAmounts, c \in CurrencyInput, d \in TermDays :
          ApplyForLoan(u, a, c, d)
    \/ \E u \in UserId, i \in 1..MaxApps : FundLoanRead(u, i)
    \/ FundLoanWrite
    \/ \E u \in UserId, i \in 1..MaxApps, a \in RepayAmounts :
          RepayLoanRead(u, i, a)
    \/ RepayLoanWrite
    \/ Tick

\* The loan commands in the bot's thread next to /api/pay in the Flask
\* thread, with authorised requests and with applications whose currency
\* is spelled in lower case.
NextRace ==
    \/ \E u \in UserId : Bank(u)
    \/ \E u \in UserId, a \in RaceLoanAmounts, c \in Currency, d \in TermDays :
          ApplyForLoan(u, a, c, d)
    \/ \E u \in UserId, i \in 1..MaxApps : FundLoanRead(u, i)
    \/ FundLoanWrite
    \/ \E u \in UserId, i \in 1..MaxApps, a \in RaceRepayAmounts :
          RepayLoanRead(u, i, a)
    \/ RepayLoanWrite
    \/ \E r \in RacePayRequest : ApiPay(r)

\* The employment commands, with the owner's gift that funds a business.
NextWork ==
    \/ \E o \in BOOLEAN, u \in UserId, a \in GiveAmounts, c \in GiveCurrency :
          GiveMoneyRead(o, u, a, c)
    \/ GiveMoneyWrite
    \/ \E u \in UserId, n \in BusinessName, t \in BusinessType :
          StartBusinessRead(u, n, t)
    \/ StartBusinessWrite
    \/ \E u \in UserId, n \in BusinessName, a \in Salaries, c \in CurrencyInput :
          PostJob(u, n, a, c)
    \/ \E u \in UserId, i \in 1..MaxJobs : ApplyJob(u, i)
    \/ \E u \in UserId : WorkForUserRead(u)
    \/ WorkForUserWrite

\* The loan commands with short terms, the passing of days and the
\* overdue-loan monitor.
NextSweep ==
    \/ \E u \in UserId : Bank(u)
    \/ \E u \in UserId, a \in RaceLoanAmounts, c \in Currency,
          d \in SweepTermDays : ApplyForLoan(u, a, c, d)
    \/ \E u \in UserId, i \in 1..MaxApps : FundLoanRead(u, i)
    \/ FundLoanWrite
    \/ \E u \in UserId, i \in 1..MaxApps, a \in RaceRepayAmounts :
          RepayLoanRead(u, i, a)
    \/ RepayLoanWrite
    \/ \E d \in DaysPassing : DaysPass(d)
    \/ SweepStart /\ UNCHANGED checker
    \/ SweepStep /\ UNCHANGED checker

\* The bank-account functions, with the gift and the business that make an
\* institution.
NextBank ==
    \/ \E o \in BOOLEAN, u \in UserId, a \in GiveAmounts, c \in GiveCurrency :
          GiveMoneyRead(o, u, a, c)
    \/ GiveMoneyWrite
    \/ \E u \in UserId, n \in BusinessName, t \in BusinessType :
          StartBusinessRead(u, n, t)
    \/ StartBusinessWrite
    \/ \E u \in UserId, b \in InstitutionId, t \in AccountType,
          c \in CurrencyInput, r \in RatioInput :
          CreateBankAccount(u, b, t, c, r)
    \/ \E i \in AccountId, u \in UserId, a \in BankAmounts :
          BankDeposit(i, u, a)
    \/ \E i \in AccountId, u \in UserId, a \in BankAmounts :
          BankWithdraw(i, u, a)
    \/ \E i \in AccountId, j \in AccountId, u \in UserId, a \in BankAmounts :
          BankTransfer(i, j, u, a)

\* The three operations that name two parties: /api/pay, fund_loan and
\* bank_transfer.
NextSame ==
    \/ \E u \in UserId : Bank(u)
    \/ \E u \in UserId, a \in RaceLoanAmounts, c \in Currency, d \in TermDays :
          ApplyForLoan(u, a, c, d)
    \/ \E u \in UserId, i \in 1..MaxApps : FundLoanRead(u, i)
    \/ FundLoanWrite
    \/ \E r \in RacePayRequest : ApiPay(r)
    \/ \E i \in AccountId, j \in AccountId, u \in UserId, a \in BankAmounts :
          BankTransfer(i, j, u, a)

\* The commands that write both wallets of one user from the row they
\* read, next to /api/pay in the Flask thread.
NextAudit ==
    \/ \E u \in UserId : Bank(u)
    \/ \E r \in AuditPayRequest : ApiPay(r)
    \/ \E o \in BOOLEAN, u \in UserId, g \in SetGold, v \in SetSilver :
          SetBalanceRead(o, u, g, v)
    \/ SetBalanceWrite
    \/ \E u \in UserId : PayZakatRead(u)
    \/ PayZakatWrite
    \/ \E u \in UserId, a \in ExchangeAmounts, f \in ExchangeCurrency,
          t \in ExchangeCurrency : CurrencyExchangeRead(u, a, f, t)
    \/ CurrencyExchangeWrite

\* The two front ends of a transfer: /api/pay and the chat command.
NextTrade ==
    \/ NextPay
    \/ \E u \in UserId, p \in UserId, a \in TradeAmounts, c \in TradeCurrency :
          Trade(u, p, a, c)

\* The HTTP API with the business commands it reads and competes with.
AuthPayRequest ==
    [token : Tokens, from_user : {"u1", BadId}, to_user : {"u2"},
     amount : {6000}, currency : {"gold_dinars"}]

NextApi ==
    \/ \E u \in UserId, a \in ProfitGiveAmounts :
          GiveMoneyRead(TRUE, u, a, "gold")
    \/ GiveMoneyWrite
    \/ \E u \in ProfitOwner, n \in BusinessName, t \in ProfitBusinessType :
          StartBusinessRead(u, n, t)
    \/ StartBusinessWrite
    \/ \E d \in ProfitDays : DaysPass(d)
    \/ \E k \in Tokens, u \in UserId \cup {BadId} : ApiBalance(k, u)
    \/ \E k \in Tokens, u \in UserId \cup {BadId} : ApiBusinesses(k, u)
    \/ \E r \in AuthPayRequest : ApiPay(r)
    \/ \E t \in ApiThread, k \in Tokens, u \in ProfitOwner \cup {BadId} :
          ApiCollectProfitRead(t, k, u)
    \/ \E t \in ApiThread : ApiCollectProfitWrite(t)
    \/ \E u \in ProfitOwner : CollectProfitRead(u)
    \/ CollectProfitWrite

\* The background task with a loan that falls due.
NextChecker ==
    \/ Bank("u1")
    \/ \E a \in RaceLoanAmounts, d \in SweepTermDays :
          ApplyForLoan("u1", a, "gold_dinars", d)
    \/ \E i \in 1..MaxApps : FundLoanRead("u2", i)
    \/ FundLoanWrite
    \/ CheckerSleep
    \/ CheckerCall
    \/ CheckerStep
    \/ CheckerRaise
    \/ CheckerBackoff

Next ==
    \/ NextChecker
    \/ NextApi
    \/ NextTrade
    \/ NextPay \/ NextLoan \/ NextWork \/ NextSweep \/ NextBank \/ NextSame
    \/ NextAudit

Spec == Init /\ [][Next]_vars
SpecPay == Init /\ [][NextPay]_vars
SpecLoan == Init /\ [][NextLoan]_vars
SpecRace == Init /\ [][NextRace]_vars
SpecWork == Init /\ [][NextWork]_vars
SpecSweep == Init /\ [][NextSweep]_vars
SpecBank == Init /\ [][NextBank]_vars
SpecSame == Init /\ [][NextSame]_vars
SpecAudit == Init /\ [][NextAudit]_vars
SpecTrade == Init /\ [][NextTrade]_vars
SpecApi == Init /\ [][NextApi]_vars
SpecChecker == Init /\ [][NextChecker]_vars

\* ================================================================ claims
\* Ledger kinds that take money out of, or put money into, the row's owner.
DebitKinds ==
    {"transfer_send", "loan_given", "loan_repayment", "business_startup",
     "employment_expense"}

CreditKinds ==
    {"transfer_receive", "loan_received", "loan_repayment_received",
     "admin_gift", "employment_income"}

\* The sum of the signed amounts of the first n ledger rows of user u in
\* currency c.
RECURSIVE LedgerDelta(_, _, _)
LedgerDelta(u, c, n) ==
    IF n = 0 THEN 0
    ELSE LedgerDelta(u, c, n - 1)
         + (IF transactions[n].user_id = u /\ transactions[n].currency = c
            THEN IF transactions[n].transaction_type \in CreditKinds
                 THEN transactions[n].amount
                 ELSE 0 - transactions[n].amount
            ELSE 0)

\* The sum of the amounts of user u's ledger rows of one kind in currency c.
RECURSIVE KindTotal(_, _, _, _)
KindTotal(u, c, kind, n) ==
    IF n = 0 THEN 0
    ELSE KindTotal(u, c, kind, n - 1)
         + (IF /\ transactions[n].user_id = u
               /\ transactions[n].currency = c
               /\ transactions[n].transaction_type = kind
            THEN transactions[n].amount ELSE 0)

\* The system-wide total of currency c over the accounts S of table tbl.
RECURSIVE Total(_, _, _)
Total(tbl, c, S) ==
    IF S = {} THEN 0
    ELSE LET u == CHOOSE x \in S : TRUE
         IN tbl[u][c] + Total(tbl, c, S \ {u})

\* C1: after any sequence of money operations no user's gold_dinars or
\* silver_dirhams balance is negative.  (Refuted under SpecWork: work_for_user
\* debits the employer's wallet by the salary without looking at it.)
NoNegativeBalance ==
    \A u \in DOMAIN users : \A c \in Currency : users[u][c] >= 0

\* C2: every successful two-sided movement that runs without interference
\* takes exactly the amount from the payer and gives exactly the amount to
\* the receiver in one and the same currency, and leaves the system-wide
\* total of every currency unchanged.  Stated for fund_loan (payer = lender)
\* and repay_loan (payer = borrower) under SpecLoan, where nothing runs
\* between a command's read and its write.  (Refuted: an application filed
\* as "Gold_Dinars" is paid from the payer's silver and received in gold.)
MoveConserved ==
    [][(FundLoanWrite \/ RepayLoanWrite) =>
         /\ \E c \in Currency :
               /\ users'[reply'.user][c] = users[reply'.user][c] - reply'.amount
               /\ users'[reply'.partner][c]
                     = users[reply'.partner][c] + reply'.amount
         /\ \A c \in Currency :
               Total(users', c, DOMAIN users') = Total(users, c, DOMAIN users)
      ]_vars

\* C3: when loan commands run next to /api/pay on the same wallets, then once
\* no command is in progress every balance equals the starting balance plus
\* the signed amounts of all the movements that reported success.  (Refuted
\* under SpecRace: fund_loan writes the lender's balance from a value read
\* before BEGIN IMMEDIATE, so a transfer committed in between is lost.)
NoLostUpdate ==
    chat.pc = "idle" =>
        \A u \in DOMAIN users : \A c \in Currency :
            users[u][c] = NewUserRow[c] + LedgerDelta(u, c, Len(transactions))

\* C4: /api/pay requests debiting the same sender are linearized: a sender
\* never sends more than the starting balance plus what was received, so of
\* two requests the balance covers only one of, at most one succeeds, and
\* every balance is the starting balance minus the amounts sent plus the
\* amounts received by the requests that succeeded.
PayLinearized ==
    \A u \in DOMAIN users : \A c \in Currency :
        LET sent == KindTotal(u, c, "transfer_send", Len(transactions))
            received == KindTotal(u, c, "transfer_receive", Len(transactions))
        IN /\ sent <= NewUserRow[c] + received
           /\ users[u][c] = NewUserRow[c] - sent + received

\* Two requests of the same sender, each within the starting balance: the
\* first succeeded, the second was refused.
PayLinearizedWitness ==
    /\ reply.op = "api_pay"
    /\ reply.result = "insufficient_or_no_sender"
    /\ reply.user \in DOMAIN users
    /\ reply.amount <= NewUserRow[reply.currency]
    /\ \E n \in 1..Len(transactions) :
          /\ transactions[n].user_id = reply.user
          /\ transactions[n].transaction_type = "transfer_send"
          /\ transactions[n].currency = reply.currency
          /\ transactions[n].amount <= NewUserRow[reply.currency]

\* A well-formed request of an existing sender for more than the sender has.
InsufficientRequest(r) ==
    /\ verify_api_token(r.token)
    /\ r.from_user \in UserId /\ r.to_user \in UserId
    /\ r.from_user # r.to_user
    /\ r.currency \in Currency
    /\ MinAmount <= r.amount /\ r.amount <= MaxAmount
    /\ r.from_user \in DOMAIN users
    /\ users[r.from_user][r.currency] < r.amount

\* C5: an /api/pay request for more than the sender's balance in that
\* currency fails with the insufficient-funds error and leaves every balance
\* and the transaction rows unchanged.
InsufficientFundsNoOp ==
    [][\A r \in PayRequest :
         (InsufficientRequest(r) /\ ApiPay(r)) =>
             /\ reply'.result = "insufficient_or_no_sender"
             /\ users' = users
             /\ transactions' = transactions
      ]_vars

\* Such a request was answered, with the recipient's account in place.
InsufficientFundsWitness ==
    /\ reply.op = "api_pay"
    /\ reply.result = "insufficient_or_no_sender"
    /\ reply.user \in DOMAIN users
    /\ reply.partner \in DOMAIN users
    /\ users[reply.user][reply.currency] < reply.amount

\* C6: /api/pay is all-or-nothing: when the debit succeeds but the recipient
\* has no account the request rolls back (balances and transaction rows as
\* before), and whatever the outcome the sender is debited exactly when the
\* recipient is credited and the two rows are written.
PayAllOrNothing ==
    [][\A r \in PayRequest :
         ApiPay(r) =>
             LET debit == r.from_user \in DOMAIN users
                            /\ users'[r.from_user] # users[r.from_user]
                 credit == r.to_user \in DOMAIN users
                             /\ users'[r.to_user] # users[r.to_user]
             IN /\ reply'.result = "recipient_not_found" =>
                      users' = users /\ transactions' = transactions
                /\ debit <=> credit
                /\ debit <=> Len(transactions') = Len(transactions) + 2
                /\ reply'.result = "ok" <=> debit
      ]_vars

\* A sender holding the amount paid a recipient that has no account.
PayAllOrNothingWitness ==
    /\ reply.op = "api_pay"
    /\ reply.result = "recipient_not_found"
    /\ reply.user \in DOMAIN users
    /\ reply.partner \notin DOMAIN users
    /\ users[reply.user][reply.currency] >= reply.amount

\* A step in which a two-sided wallet move succeeds.
SuccessfulMove ==
    \/ /\ reply'.op = "api_pay" /\ reply'.result = "ok"
       /\ \E r \in PayRequest : ApiPay(r)
    \/ FundLoanWrite
    \/ RepayLoanWrite

\* C7: every successful two-sided wallet move (/api/pay, fund_loan,
\* repay_loan) appends exactly two transaction rows: the payer's, of a debit
\* kind, and the receiver's, of a credit kind, with the amount moved, the same
\* currency, and each naming the other party as partner_id.
AuditComplete ==
    [][SuccessfulMove =>
         /\ Len(transactions') = Len(transactions) + 2
         /\ SubSeq(transactions', 1, Len(transactions)) = transactions
         /\ LET out == transactions'[Len(transactions) + 1]
                in == transactions'[Len(transactions) + 2]
            IN /\ out.user_id = reply'.user
               /\ in.user_id = reply'.partner
               /\ out.user_id # in.user_id
               /\ out.amount = reply'.amount /\ in.amount = out.amount
               /\ out.currency = in.currency
               /\ out.transaction_type \in DebitKinds
               /\ in.transaction_type \in CreditKinds
               /\ out.partner_id = in.user_id
               /\ in.partner_id = out.user_id
      ]_vars

\* A transfer has succeeded and then a loan funding.
AuditCompleteWitness ==
    /\ reply.op = "fund_loan" /\ reply.result = "ok"
    /\ Len(transactions) = 4
    /\ transactions[1].transaction_type = "transfer_send"
    /\ transactions[2].transaction_type = "transfer_receive"
    /\ transactions[3].transaction_type = "loan_given"
    /\ transactions[4].transaction_type = "loan_received"

\* C8: a successful fund_loan moves loan_amount from the lender to the
\* borrower, creates exactly one loan (active, repaid_amount 0, the
\* application's currency and due date), marks the application funded by the
\* lender and writes one loan_given and one loan_received row.  (Refuted
\* under SpecLoan for the reason of C2: for an application filed as
\* "Gold_Dinars" the lender pays in silver what the borrower gets in gold.)
FundLoanEffect ==
    [][FundLoanWrite =>
         LET app == loan_applications[chat.id]
             lender == chat.user
             new == {n \in Len(transactions) + 1 .. Len(transactions') :
                       TRUE}
         IN /\ \E c \in Currency :
                  /\ users'[lender][c] = users[lender][c] - app.loan_amount
                  /\ users'[app.borrower_id][c]
                        = users[app.borrower_id][c] + app.loan_amount
            /\ Len(loans') = Len(loans) + 1
            /\ SubSeq(loans', 1, Len(loans)) = loans
            /\ loans'[Len(loans')] =
                  [lender_id |-> lender, borrower_id |-> app.borrower_id,
                   loan_amount |-> app.loan_amount, currency |-> app.currency,
                   due_date |-> app.due_date, repaid_amount |-> 0,
                   status |-> "active"]
            /\ loan_applications'[chat.id].status = "funded"
            /\ loan_applications'[chat.id].funded_by = lender
            /\ Cardinality(new) = 2
            /\ Cardinality({n \in new :
                  transactions'[n].transaction_type = "loan_given"}) = 1
            /\ Cardinality({n \in new :
                  transactions'[n].transaction_type = "loan_received"}) = 1
      ]_vars

\* The ledger rows of one kind.
RowsOfKind(kind) ==
    {n \in 1..Len(transactions) : transactions[n].transaction_type = kind}

\* C9: fund_loan on an application that exists but is not pending always
\* fails with the one not-found-or-funded error and changes no balance, loan,
\* application or ledger row; and there are never more loans, nor more
\* loan_given or loan_received rows, than funded applications.
FundOnlyOnce ==
    /\ [](/\ Len(loans) = Cardinality({i \in 1..Len(loan_applications) :
                                loan_applications[i].status = "funded"})
          /\ Cardinality(RowsOfKind("loan_given")) = Len(loans)
          /\ Cardinality(RowsOfKind("loan_received")) = Len(loans))
    /\ [][\A u \in UserId, i \in 1..Len(loan_applications) :
            (loan_applications[i].status # "pending" /\ FundLoanRead(u, i)) =>
                /\ reply' = Reply("fund_loan", u, NoUser, 0, "none", i,
                                  "not_found_or_funded")
                /\ chat' = chat
                /\ users' = users /\ loans' = loans
                /\ loan_applications' = loan_applications
                /\ transactions' = transactions
         ]_vars

\* fund_loan was refused on an application that had been funded, by a caller
\* who is not its borrower and holds the amount.
FundOnlyOnceWitness ==
    /\ reply.op = "fund_loan"
    /\ reply.result = "not_found_or_funded"
    /\ reply.id \in 1..Len(loan_applications)
    /\ loan_applications[reply.id].status = "funded"
    /\ loan_applications[reply.id].borrower_id # reply.user
    /\ reply.user \in DOMAIN users
    /\ users[reply.user][Branch(loan_applications[reply.id].currency)]
          >= loan_applications[reply.id].loan_amount

\* The cases in which repay_loan must refuse: the wallet is the one
\* repay_loan takes the repayment from.
RepayMustRefuse(u, loan_id, repayment_amount) ==
    \/ loans[loan_id].status # "active"
    \/ loans[loan_id].borrower_id # u
    \/ repayment_amount <= 0
    \/ repayment_amount > loans[loan_id].loan_amount
                            - loans[loan_id].repaid_amount
    \/ /\ u \in DOMAIN users
       /\ users[u][Branch(loans[loan_id].currency)] < repayment_amount

\* C10: repay_loan is rejected, with balances, loans and ledger unchanged and
\* no write begun, whenever the loan is not active, the caller is not its
\* borrower, the amount is not positive, the amount exceeds
\* loan_amount - repaid_amount, or the borrower's wallet holds less than the
\* amount.
RepayRejected ==
    [][\A u \in UserId, i \in 1..Len(loans), a \in RepayAmounts :
         (RepayMustRefuse(u, i, a) /\ RepayLoanRead(u, i, a)) =>
             /\ reply'.op = "repay_loan"
             /\ reply'.result \in {"not_found_or_not_borrower", "not_active",
                                    "exceeds_remaining", "not_positive",
                                    "insufficient_funds"}
             /\ chat' = chat
             /\ users' = users /\ loans' = loans
             /\ transactions' = transactions
      ]_vars

\* repay_loan has refused the borrower of an active loan a repayment within
\* the outstanding amount, for want of funds.
RepayRejectedWitness ==
    /\ reply.op = "repay_loan"
    /\ reply.result = "insufficient_funds"
    /\ reply.id \in 1..Len(loans)
    /\ loans[reply.id].status = "active"
    /\ loans[reply.id].borrower_id = reply.user
    /\ reply.amount > 0
    /\ reply.amount <= loans[reply.id].loan_amount
                         - loans[reply.id].repaid_amount
    /\ users[reply.user][Branch(loans[reply.id].currency)] < reply.amount

PastDue(l, days) ==
    /\ l.status = "active"
    /\ l.repaid_amount < l.loan_amount
    /\ today - l.due_date >= days

\* The step that finishes a sweep of the monitor.
SweepEnds == (SweepStart \/ SweepStep) /\ sweep'.pc = "sleeping"

\* C12: when a sweep finishes, every borrower who held an active, not fully
\* repaid loan whose due date was 14 or more days in the past has both
\* wallets at zero, no active loan, no pending application, no active
\* business, and an account_reset row in the ledger.
OverdueReset ==
    [][SweepEnds =>
        \A i \in 1..Len(loans) :
           PastDue(loans[i], ResetDays) =>
              LET u == loans[i].borrower_id IN
              /\ users'[u].gold_dinars = 0
              /\ users'[u].silver_dirhams = 0
              /\ \A j \in 1..Len(loans') :
                    loans'[j].borrower_id = u => loans'[j].status # "active"
              /\ \A j \in 1..Len(loan_applications') :
                    loan_applications'[j].borrower_id = u
                       => loan_applications'[j].status # "pending"
              /\ \A j \in 1..Len(businesses') :
                    businesses'[j].user_id = u
                       => businesses'[j].status # "active"
              /\ \E n \in 1..Len(transactions') :
                    /\ transactions'[n].transaction_type = "account_reset"
                    /\ transactions'[n].user_id = u
      ]_vars

\* C13: reset_user_data is all-or-nothing: the loop iteration that calls it
\* leaves either every one of its mutations for that borrower (ledger row,
\* wallets, businesses, applications, loans) or none of them.
ResetAtomic ==
    [][sweep.pc = "processing" /\ sweep' # sweep =>
        LET u == Head(sweep.overdue_loans).borrower_id IN
        \/ UNCHANGED <<transactions, users, businesses, loan_applications,
                       loans>>
        \/ /\ transactions' = ResetTransactions(u)
           /\ users' = ResetUsers(u)
           /\ businesses' = ResetBusinesses(u)
           /\ loan_applications' = ResetApplications(u)
           /\ loans' = ResetLoans(u)
      ]_vars

\* reset_user_data has just failed for a borrower whose loan is still
\* active, and the ledger holds no account_reset row.
ResetAtomicWitness ==
    /\ reply.op = "reset_user_data" /\ reply.result = "error"
    /\ reply.id \in 1..Len(loans)
    /\ loans[reply.id].status = "active"
    /\ loans[reply.id].borrower_id = reply.user
    /\ RowsOfKind("account_reset") = {}

\* C14: when a sweep finishes, every borrower holding an active, not fully
\* repaid loan that is at least 7 and fewer than 14 days past due has been
\* sent a warning, and the finishing step changed no stored row.
OverdueWarning ==
    [][SweepEnds =>
        \A i \in 1..Len(loans) :
           (PastDue(loans[i], WarningDays) /\ ~PastDue(loans[i], ResetDays))
              => /\ [user |-> loans[i].borrower_id, kind |-> "warning"]
                    \in notice'
                 /\ UNCHANGED <<users, transactions, loanTables, jobTables,
                                bankTables>>
      ]_vars

\* C15: a loan is created active; its status only goes from active to
\* completed, in a repay_loan that brings repaid_amount to loan_amount, or
\* from active to defaulted, in the monitor's loop; completed and defaulted
\* are final, and repaid_amount only changes on an active loan.
LoanLifecycle ==
    [][/\ \A i \in (Len(loans) + 1)..Len(loans') :
             loans'[i].status = "active"
       /\ \A i \in 1..Len(loans) :
             /\ i <= Len(loans')
             /\ loans[i].status # "active" => loans'[i] = loans[i]
             /\ loans'[i].repaid_amount # loans[i].repaid_amount
                   => chat.pc = "repay_loan" /\ chat.id = i
             /\ loans'[i].status # loans[i].status =>
                   \/ /\ loans'[i].status = "completed"
                      /\ chat.pc = "repay_loan" /\ chat.id = i
                      /\ loans'[i].repaid_amount = loans[i].loan_amount
                   \/ /\ loans'[i].status = "defaulted"
                      /\ sweep.pc = "processing"
                      /\ Head(sweep.overdue_loans).borrower_id
                            = loans[i].borrower_id
      ]_vars

\* A repayment has just been refused on a loan that is completed.
LoanLifecycleWitness ==
    /\ reply.op = "repay_loan" /\ reply.result # "ok"
    /\ reply.id \in 1..Len(loans)
    /\ loans[reply.id].status = "completed"
    /\ loans[reply.id].borrower_id = reply.user
    /\ reply.amount > 0

\* ---------------------------------------------------- bank-account claims
\* Arguments create_bank_account accepts: a known type and currency, a
\* ratio in [0, 1] for mudarabah and none for wadiah.
ValidAccountArguments(account_type, currency, ratio) ==
    /\ account_type \in {"wadiah", "mudarabah"}
    /\ currency \in Currency
    /\ account_type = "mudarabah"
          => ~ratio.is_none /\ 0 <= ratio.value /\ ratio.value <= 100
    /\ account_type = "wadiah" => ratio.is_none

\* C19: create_bank_account with valid arguments, against an eligible
\* institution, by a user below the limit of five accounts there, succeeds
\* and persists a new active account with balance 0, an owner permission
\* row for the owner and a zero-amount opening entry in the bank ledger.
AccountOpened ==
    [][reply'.op = "create_bank_account" =>
        \A u \in UserId, b \in InstitutionId, t \in AccountType,
           c \in CurrencyInput, r \in RatioInput :
           ( /\ ValidAccountArguments(t, c, r)
             /\ EligibleInstitution(b)
             /\ get_user_account_count(u, b) < MaxAccounts
             /\ CreateBankAccount(u, b, t, c, r) )
           => /\ reply'.result = "ok"
              /\ Len(bank_accounts') = Len(bank_accounts) + 1
              /\ bank_accounts'[Len(bank_accounts')].status = "active"
              /\ bank_accounts'[Len(bank_accounts')].balance = 0
              /\ bank_accounts'[Len(bank_accounts')].owner_user_id = u
              /\ [account_id |-> Len(bank_accounts'), user_id |-> u,
                  role |-> "owner"] \in bank_account_permissions'
              /\ Len(bank_ledger') = Len(bank_ledger) + 1
              /\ bank_ledger'[Len(bank_ledger')].amount = 0
              /\ bank_ledger'[Len(bank_ledger')].account_id
                    = Len(bank_accounts')
      ]_vars

\* C20: a bank account carries a profit_share_ratio exactly when it is a
\* mudarabah account; create_bank_account refuses a mudarabah account
\* without a ratio in [0, 1] and a wadiah account with a ratio, creating
\* nothing; and no step changes the type or the ratio of an account.
ProfitShareRule ==
    /\ [](\A i \in 1..Len(bank_accounts) :
            bank_accounts[i].account_type = "mudarabah"
               <=> ~bank_accounts[i].profit_share_ratio.is_none)
    /\ [][reply'.op = "create_bank_account" =>
            \A t \in {"wadiah", "mudarabah"}, r \in RatioInput :
               ( /\ reply'.currency \in Currency
                 /\ CreateBankAccount(reply'.user, reply'.id, t,
                                      reply'.currency, r) )
               => /\ (t = "mudarabah"
                        /\ (r.is_none \/ r.value < 0 \/ r.value > 100))
                       => /\ reply'.result = "ratio_required"
                          /\ UNCHANGED bankTables
                  /\ (t = "wadiah" /\ ~r.is_none)
                       => /\ reply'.result = "wadiah_with_ratio"
                          /\ UNCHANGED bankTables
         ]_vars
    /\ [][\A i \in 1..Len(bank_accounts) :
            /\ i <= Len(bank_accounts')
            /\ bank_accounts'[i].account_type = bank_accounts[i].account_type
            /\ bank_accounts'[i].profit_share_ratio
                  = bank_accounts[i].profit_share_ratio
         ]_vars

\* A wadiah account with a ratio has just been refused at an institution
\* that could have opened it.
ProfitShareRuleWitness ==
    /\ reply.op = "create_bank_account"
    /\ reply.result = "wadiah_with_ratio"
    /\ EligibleInstitution(reply.id)
    /\ bank_accounts = <<>>

\* C16: an operation whose two parties are the same is refused and changes
\* no balance, loan, application or ledger row: /api/pay with from_user =
\* to_user, fund_loan by the borrower of the application, bank_transfer
\* with from_account_id = to_account_id.
SamePartyRejected ==
    [][/\ reply'.op = "api_pay" =>
            \A r \in RacePayRequest :
               (r.from_user = r.to_user /\ ApiPay(r))
                  => /\ reply'.result # "ok"
                     /\ validate_user_id(r.from_user)
                           => reply'.result = "self_transfer"
                     /\ UNCHANGED <<users, transactions, loanTables,
                                    bankTables>>
       /\ \A u \in UserId, i \in 1..MaxApps :
            ( /\ chat.pc = "idle"
              /\ PendingApplication(i)
              /\ loan_applications[i].borrower_id = u
              /\ FundLoanRead(u, i) )
               => /\ reply'.op = "fund_loan"
                  /\ reply'.result = "self_funding"
                  /\ chat'.pc = "idle"
                  /\ UNCHANGED <<users, transactions, loanTables, bankTables>>
       /\ reply'.op = "bank_transfer" =>
            \A i \in AccountId, u \in UserId, a \in BankAmounts :
               (a > 0 /\ BankTransfer(i, i, u, a))
                  => /\ reply'.result = "same_account"
                     /\ UNCHANGED <<users, transactions, loanTables,
                                    bankTables>>
      ]_vars

\* A borrower who could afford it has just been refused the funding of
\* their own pending application.
SamePartyRejectedWitness ==
    /\ reply.op = "fund_loan" /\ reply.result = "self_funding"
    /\ PendingApplication(reply.id)
    /\ loan_applications[reply.id].borrower_id = reply.user
    /\ reply.user \in DOMAIN users
    /\ users[reply.user][Branch(loan_applications[reply.id].currency)]
          >= loan_applications[reply.id].loan_amount

\* C17: a bank_transfer that succeeds had two active accounts of one
\* currency, a permitted caller and a sufficient source balance, moves the
\* amount from the source to the destination and appends a transfer_out and
\* a transfer_in ledger row naming each other; a bank_transfer that does not
\* succeed changes no balance and no ledger row.
TransferEffect ==
    [][reply'.op = "bank_transfer" =>
        \A i \in AccountId, j \in AccountId, u \in UserId, a \in BankAmounts :
           BankTransfer(i, j, u, a) =>
              IF reply'.result = "ok"
              THEN /\ ActiveAccount(i) /\ ActiveAccount(j) /\ i # j
                   /\ bank_accounts[i].currency = bank_accounts[j].currency
                   /\ HasPermission(i, u)
                   /\ bank_accounts[i].balance >= a
                   /\ bank_accounts'[i].balance = bank_accounts[i].balance - a
                   /\ bank_accounts'[j].balance = bank_accounts[j].balance + a
                   /\ Len(bank_ledger') = Len(bank_ledger) + 2
                   /\ bank_ledger'[Len(bank_ledger) + 1] =
                        LedgerRow(i, "transfer_out", a,
                                  bank_accounts[i].currency, j, u)
                   /\ bank_ledger'[Len(bank_ledger) + 2] =
                        LedgerRow(j, "transfer_in", a,
                                  bank_accounts[i].currency, i, u)
              ELSE UNCHANGED <<bank_accounts, bank_ledger>>
      ]_vars

\* C18: a bank_deposit (bank_withdraw) that succeeds was made by a permitted
\* caller and moves the amount from the wallet to the account (from the
\* account to the wallet), keeping their sum and a balance of at least 0,
\* with one bank-ledger row and one wallet transaction row; a caller without
\* permission is refused and nothing changes.
DepositWithdrawEffect ==
    [][reply'.op \in {"bank_deposit", "bank_withdraw"} =>
        \A i \in AccountId, u \in UserId, a \in BankAmounts :
           (BankDeposit(i, u, a) \/ BankWithdraw(i, u, a)) =>
              IF reply'.result = "ok"
              THEN LET column == Branch(bank_accounts[i].currency) IN
                   /\ HasPermission(i, u)
                   /\ bank_accounts'[i].balance >= 0
                   /\ bank_accounts'[i].balance - bank_accounts[i].balance
                        = IF reply'.op = "bank_deposit" THEN a ELSE 0 - a
                   /\ users'[u][column] + bank_accounts'[i].balance
                        = get_user_account(u)[column] + bank_accounts[i].balance
                   /\ Len(bank_ledger') = Len(bank_ledger) + 1
                   /\ Len(transactions') = Len(transactions) + 1
              ELSE /\ UNCHANGED <<bank_accounts, bank_ledger, transactions>>
                   /\ reply'.result = "no_permission" => UNCHANGED users
      ]_vars

\* ------------------------------------------------------------ audit claims
\* The rows a step appends to the wallet ledger and to the bank ledger.
NewTransactions ==
    {transactions'[n] : n \in (Len(transactions) + 1)..Len(transactions')}

NewLedgerRows ==
    {bank_ledger'[n] : n \in (Len(bank_ledger) + 1)..Len(bank_ledger')}

\* C21: every step that changes a wallet of a user appends a transactions
\* row of that user, and every step that changes the balance of a bank
\* account appends a bank_ledger row of that account.
AuditedChange ==
    [][/\ \A u \in DOMAIN users :
            users'[u] # users[u]
               => \E row \in NewTransactions : row.user_id = u
       /\ \A i \in 1..Len(bank_accounts) :
            bank_accounts'[i].balance # bank_accounts[i].balance
               => \E row \in NewLedgerRows : row.account_id = i
      ]_vars

\* C22: the ledgers are append-only: every step keeps each row of
\* transactions and of bank_ledger as it was and only adds rows at the end.
AppendOnly ==
    [][/\ Len(transactions') >= Len(transactions)
       /\ \A n \in 1..Len(transactions) : transactions'[n] = transactions[n]
       /\ Len(bank_ledger') >= Len(bank_ledger)
       /\ \A n \in 1..Len(bank_ledger) : bank_ledger'[n] = bank_ledger[n]
      ]_vars

\* The monitor has just run reset_user_data for a borrower, and the rows
\* of the loan that was funded and partly repaid are all still there.
AppendOnlyWitness ==
    /\ reply.op = "reset_user_data"
    /\ Len(transactions) = 4
    /\ transactions[1].transaction_type = "loan_given"
    /\ transactions[2].transaction_type = "loan_received"
    /\ transactions[2].user_id = reply.user
    /\ transactions[3].transaction_type = "loan_repayment"

\* C23: in every reachable state the currency of every row of
\* transactions, loans, loan_applications, bank_accounts and bank_ledger is
\* gold_dinars or silver_dirhams.
CurrencyEnumerated ==
    /\ \A n \in 1..Len(transactions) : transactions[n].currency \in Currency
    /\ \A n \in 1..Len(loans) : loans[n].currency \in Currency
    /\ \A n \in 1..Len(loan_applications) :
          loan_applications[n].currency \in Currency
    /\ \A n \in 1..Len(bank_accounts) : bank_accounts[n].currency \in Currency
    /\ \A n \in 1..Len(bank_ledger) : bank_ledger[n].currency \in Currency

\* ------------------------------------------------------- front-end claims
\* The two-sided move of `amount` of `currency` from one user to another:
\* the balances and the pair of ledger rows it leaves.
MovedUsers(from_user, to_user, amount, currency) ==
    AddBalance(AddBalance(users, from_user, currency, 0 - amount),
               to_user, currency, amount)

MovedRows(from_user, to_user, amount, currency) ==
    << TxRow(from_user, "transfer_send", amount, currency, to_user),
       TxRow(to_user, "transfer_receive", amount, currency, from_user) >>

WalletOf(currency) ==
    IF currency = "gold" THEN "gold_dinars" ELSE "silver_dirhams"

\* C24: from a state in which both users exist and the sender can pay, an
\* accepted /api/pay and an accepted trade with the same sender, recipient,
\* currency and amount both leave the moved balances and the pair of
\* ledger rows.
SameMove ==
    [][/\ (reply'.op = "api_pay" /\ reply'.result = "ok") =>
            \A r \in PayRequest :
               ApiPay(r) =>
                  /\ users' = MovedUsers(r.from_user, r.to_user, r.amount,
                                         r.currency)
                  /\ transactions' = transactions \o
                        MovedRows(r.from_user, r.to_user, r.amount, r.currency)
       /\ (reply'.op = "trade" /\ reply'.result = "proposal") =>
            \A u \in UserId, p \in UserId, a \in TradeAmounts,
               c \in {"gold", "silver"} :
               ( /\ u \in DOMAIN users /\ p \in DOMAIN users
                 /\ Trade(u, p, a, c) )
               => /\ users' = MovedUsers(u, p, a, WalletOf(c))
                  /\ transactions' = transactions \o
                        MovedRows(u, p, a, WalletOf(c))
      ]_vars

ServerState ==
    <<users, transactions, loan_applications, loans, businesses,
      job_postings, user_employment, chat, today, bank_accounts, bank_ledger,
      bank_account_permissions, sweep, notice, api, checker>>

\* C26: a request to /api/balance, /api/pay, /api/businesses or
\* /api/collect_profit with a wrong bearer token is answered 401 whatever
\* else is wrong with it and changes nothing; /api/balance never changes the
\* users table and answers 404 for a valid id without an account.
Unauthorized ==
    [][reply'.op \in {"api_balance", "api_businesses", "api_collect_profit",
                      "api_pay"} =>
       /\ \A k \in Tokens \ {"API_TOKEN"}, u \in UserId \cup {BadId} :
            ( \/ ApiBalance(k, u)
              \/ ApiBusinesses(k, u)
              \/ \E t \in ApiThread : ApiCollectProfitRead(t, k, u) )
            => /\ reply'.result = "unauthorized"
               /\ UNCHANGED ServerState
       /\ \A r \in AuthPayRequest :
            (r.token # "API_TOKEN" /\ ApiPay(r))
            => /\ reply'.result = "unauthorized"
               /\ UNCHANGED ServerState
       /\ \A k \in Tokens, u \in UserId \cup {BadId} :
            ApiBalance(k, u)
            => /\ users' = users
               /\ (k = "API_TOKEN" /\ u \in UserId \ DOMAIN users)
                     => reply'.result = "not_found"
      ]_vars

\* A request with a wrong token for a user whose business has profit to
\* collect has been answered.
UnauthorizedWitness ==
    /\ reply.op = "api_collect_profit"
    /\ reply.result = "unauthorized"
    /\ reply.user \in UserId
    /\ total_profit(reply.user) > 0

\* The profit a business has earned since it was created.
EarnedProfit(b) ==
    (b.daily_profit * (((today - b.created_date) * 24) \div PeriodHours))
        \div PeriodsPerDay

RECURSIVE EarnedBy(_, _)
EarnedBy(u, n) ==
    IF n = 0 THEN 0
    ELSE EarnedBy(u, n - 1)
         + (IF businesses[n].user_id = u THEN EarnedProfit(businesses[n])
            ELSE 0)

RECURSIVE ProfitPaid(_, _)
ProfitPaid(u, n) ==
    IF n = 0 THEN 0
    ELSE ProfitPaid(u, n - 1)
         + (IF /\ transactions[n].user_id = u
               /\ transactions[n].transaction_type = "business_profit"
            THEN transactions[n].amount ELSE 0)

\* C30: the profit of an elapsed period is credited at most once: the
\* business_profit rows of a user never add up to more than the user's
\* businesses have earned since they were created.
ProfitOnce ==
    \A u \in UserId :
        ProfitPaid(u, Len(transactions)) <= EarnedBy(u, Len(businesses))

\* ------------------------------------------------- background-task claims
\* C27: when a sweep has thrown, the next call of process_overdue_loans
\* comes after the backoff alone, with no full-period sleep in between.
RetryAfterBackoff ==
    (checker.pc = "call" /\ checker.failed)
        => checker.slept <= BackoffHours

\* The iteration of the sweep that is next: its borrower and its loan.
NextBorrower == Head(sweep.overdue_loans).borrower_id

NextLoanId == Head(sweep.overdue_loans).id

\* The iteration runs reset_user_data for its row.
RunsReset ==
    /\ reply'.op = "reset_user_data"
    /\ reply'.user = NextBorrower
    /\ reply'.id = NextLoanId

\* C28: within one sweep a borrower is reset or warned at most once: an
\* iteration for a borrower already processed in this sweep resets nothing,
\* warns nobody and writes no row, and a borrower an iteration resets counts
\* as processed for the rest of the sweep.
OncePerSweep ==
    [][(sweep.pc = "processing" /\ SweepStep) =>
         /\ NextBorrower \in sweep.processed_users
              => /\ ~RunsReset
                 /\ UNCHANGED <<users, transactions, loanTables, businesses,
                                notice>>
         /\ (RunsReset /\ sweep'.pc = "processing")
              => NextBorrower \in sweep'.processed_users
      ]_vars

\* The borrower has been processed for the first overdue loan and the sweep
\* stands before the second overdue loan of the same borrower.
OncePerSweepWitness ==
    /\ sweep.pc = "processing"
    /\ reply.op = "reset_user_data"
    /\ reply.user = NextBorrower
    /\ reply.id # NextLoanId
    /\ NextBorrower \in sweep.processed_users

\* C29: a borrower whose processing fails does not end the sweep: every
\* iteration, also the one after a failed reset, goes on to the rest of the
\* rows, and every row of a borrower not yet processed gets its reset.
SweepGoesOn ==
    [][(sweep.pc = "processing" /\ SweepStep) =>
         /\ Tail(sweep.overdue_loans) # <<>>
              => /\ sweep'.pc = "processing"
                 /\ sweep'.overdue_loans = Tail(sweep.overdue_loans)
         /\ ( /\ NextBorrower \notin sweep.processed_users
              /\ today - Head(sweep.overdue_loans).due_date >= ResetDays )
              => RunsReset
      ]_vars

\* The reset of the first borrower has failed and the second borrower has
\* had the reset run in the same sweep.
SweepGoesOnWitness ==
    /\ sweep.pc = "sleeping"
    /\ reply.op = "reset_user_data"
    /\ reply.result = "error"
    /\ reply.id = 2
    /\ Len(loans) = 2
    /\ loans[1].borrower_id # loans[2].borrower_id
    /\ loans[1].status = "active"
    /\ loans[1].repaid_amount < loans[1].loan_amount
    /\ loans[1].due_date <= loans[2].due_date
====
